---- MODULE Spec2Model ----
(***************************************************************************)
(* Home Station core: the threshold alert manager (core/alerts.py), the    *)
(* cooperative-tick event bus (core/event_bus.py), the direct-dispatch web *)
(* bus (core/web_event_bus.py) and the buffered time-series store          *)
(* (core/data_store.py), each as a state machine over its own variables.   *)
(* Every component has its own specification (SpecAlert, SpecTick,         *)
(* SpecBus, SpecStore); the variables of the other components stay at      *)
(* their initial values.                                                   *)
(***************************************************************************)
EXTENDS Integers, Sequences, FiniteSets, TLC

VARIABLES
    hostMode,     \* which bus the host built: "tk" (main.py) or "web" (web_app.py)
    \* ---- EventBus (core/event_bus.py)
    busQueue,        \* EventBus._queue: the (topic, payload) pairs put and not yet got
    busSubscribers,  \* EventBus._subscribers: topic -> list of callbacks
    busInvoked,      \* callback -> the calls cb(payload) made so far, in order
    busPublished,    \* topic -> the payloads publish() was called with, in order
    busEarly,        \* the <<topic, callback>> registered before the topic's first publish
    pollState,       \* _poll: "scheduled" (root.after pending), "running" or "dead"
    pollCount,       \* _poll: iterations of range(50) done in the running tick
    \* ---- WebEventBus (core/web_event_bus.py)
    webLatest,       \* WebEventBus._latest: topic -> latest payload
    sseClients,      \* WebEventBus._sse_clients: the list of client queues
    sseQueue,        \* client -> contents of its Queue(maxsize=100)
    webSubscribers,  \* WebEventBus._subscribers: topic -> list of callbacks
    webInvoked,      \* callback -> the calls cb(payload) made so far, in order
    webPublished,    \* topic -> the payloads publish() was called with, in order
    webEarly,        \* the <<topic, callback>> registered before the topic's first publish
    webPc,           \* publisher thread -> where it is in publish()
    webMsg,          \* publisher thread -> the (topic, payload) it is publishing
    webIdx,          \* publisher thread -> position of its loop over the subscribers
    webResult,       \* publisher thread -> how its last publish() ended
    sseOpen,         \* the clients whose sse_stream() generator is running
    sseLast,         \* client -> what its generator yielded last
    sseDropped,      \* client -> publishes that found its queue full since it connected
    webSnapshot,     \* the last get_latest() call: what it returned and what had been published
    webDead,         \* publisher thread -> the list dead of its loop over _sse_clients
    webUnserved,     \* publisher thread -> the clients registered ever since its loop over
                     \* _sse_clients began that the loop has not reached
    \* ---- DataStore (core/data_store.py)
    stClock,         \* time.time() as the store reads it, in seconds
    write_buffer,    \* DataStore._write_buffer: readings recorded and not yet swapped out
    nRecorded,       \* number of record() calls made (the k-th reading has id k)
    inBatches,       \* reading id -> number of flush batches that took the reading
    readings,        \* table readings: the committed rows
    hourly_avg,      \* table hourly_avg: <<hour, field>> -> Bucket
    write_lock,      \* DataStore._write_lock: "free" or the thread holding it
    stop_event,      \* DataStore._stop
    stPc,            \* thread -> where it is ("flush": the flush thread, "main": the caller of stop())
    stBatch,         \* thread -> the batch its _flush_buffer swapped out
    dsRows,          \* _maybe_downsample: the (hour, field) rows its SELECT returned
    stPending,       \* thread -> rows its connection inserted in a transaction still open
    stCall,          \* the cleanup() or query call the last step made: its arguments and what it returned
    \* ---- AlertManager (core/alerts.py)
    alClock,      \* time.time() as the alert manager reads it
    cooldowns,    \* AlertManager._cooldowns: rule id -> last trigger time
    active,       \* AlertManager._active: rule id -> active alert
    lastCheck,    \* the arguments of the most recent check() call
    triggered,    \* the list the most recent check() call returned
    prevTrigger,  \* rule id -> time of the trigger before the last one
    alConfig,     \* config.get("alerts", []): the rules as dashboard.yaml gives them
    alManager,    \* web_app.alert_manager: "unwired" before _wire_data_store, then
                  \* "none" (None) or "loaded" (an AlertManager)
    alRules,      \* AlertManager._rules of the loaded manager
    alEvaluated,  \* positions in alConfig of the rules a check() has evaluated
    \* ---- DataSource (core/data_source.py)
    srcKind,      \* whose _run the source has: "base" (DataSource) or "camera" (CameraSource)
    srcInterval,  \* DataSource.interval, in milliseconds
    srcStop,      \* DataSource._stop: the flag of the Event
    srcThread,    \* DataSource._thread: the worker created last (0 for None)
    srcPc,        \* worker -> where it is in _run
    srcChunk,     \* worker -> iterations left of the for loop over range(max(chunks, 1))
    srcLast,      \* the most recent lifecycle call: "none", "start" or "stop"
    srcCalls,     \* number of start() and stop() calls made
    srcCycle,     \* worker -> what its current or last cycle did: the outcome of
                  \* fetch() and the publish() calls made
    srcAtStop,    \* worker -> where it was when the standing stop flag was set
    srcAfterStop, \* worker -> the fetch() and time.sleep() calls it began, and the
                  \* publish() calls it made, with the flag set
    \* ---- the wiring of web_app.py (_wire_data_store)
    wireFields,   \* _sensor_fields: the fields of the sensor cards of the configuration
    wireMsg,      \* the arguments of the last recording_publish() call
    wireCalls,    \* the calls that recording_publish() made, in order
    wireCount,    \* number of recording_publish() calls made
    \* ---- DataStore: the buffer lock
    buffer_lock,  \* DataStore._buffer_lock: "free" or the thread that holds it
    recPc,        \* where the producer is in record(): "idle" or "append"
    \* ---- CameraSource (sources/camera_source.py)
    camClock,     \* time.time(), in seconds
    camStop,      \* CameraSource._stop: the flag of the Event
    camPc,        \* where the worker is in _run and fetch()
    camProcess,   \* CameraSource._process: 0 for None, else the subprocess
    camRunning,   \* the ffmpeg subprocesses that are running
    camStarted,   \* number of subprocesses created so far
    camLast,      \* CameraSource._last_restart
    camAttempts,  \* the times of the restart attempts, in order
    camResults,   \* what the fetch() calls made so far did, in order
    camClose,     \* where the caller of close() is: "no", "stopped" or "returned"
    \* ---- AlertManager.check() called from several producer threads
    ckPc,         \* producer -> where it is in check(): "idle", "rule", "set" or "del"
    ckValue,      \* producer -> the value its check() was called with
    ckIdx,        \* producer -> position in self._rules of the rule its loop is at
    ckTriggered,  \* producer -> the list triggered of its call
    ckAlerts,     \* the alerts the calls have appended to their lists, in order
    ckRaised,     \* the producers whose last check() raised KeyError
    ckCalls       \* number of check() calls begun

loadVars == <<alConfig, alManager, alRules, alEvaluated>>

alertVars == <<alClock, cooldowns, active, lastCheck, triggered, prevTrigger,
               loadVars>>

busVars == <<busQueue, busSubscribers, busInvoked, busPublished, busEarly,
             pollState, pollCount>>

webVars == <<webLatest, sseClients, sseQueue, webSubscribers, webInvoked,
             webPublished, webEarly, webPc, webMsg, webIdx, webResult,
             sseOpen, sseLast, sseDropped, webSnapshot, webDead, webUnserved>>

storeVars == <<stClock, write_buffer, nRecorded, inBatches, readings,
               hourly_avg, write_lock, stop_event, stPc, stBatch, dsRows,
               stPending, stCall>>

srcVars == <<srcKind, srcInterval, srcStop, srcThread, srcPc, srcChunk,
             srcLast, srcCalls, srcCycle, srcAtStop, srcAfterStop>>

wireVars == <<wireFields, wireMsg, wireCalls, wireCount>>

lockVars == <<buffer_lock, recPc>>

camVars == <<camClock, camStop, camPc, camProcess, camRunning, camStarted,
             camLast, camAttempts, camResults, camClose>>

checkVars == <<ckPc, ckValue, ckIdx, ckTriggered, ckAlerts, ckRaised, ckCalls>>

vars == <<hostMode, busVars, webVars, storeVars, alertVars, srcVars, wireVars,
          lockVars, camVars, checkVars>>

\* What a step of one component leaves alone: the host's choice of bus and
\* the variables of the other components.
notBus == <<hostMode, webVars, storeVars, alertVars, srcVars, wireVars,
            lockVars, camVars, checkVars>>
notWeb == <<hostMode, busVars, storeVars, alertVars, srcVars, wireVars,
            lockVars, camVars, checkVars>>
notStore == <<hostMode, busVars, webVars, alertVars, srcVars, wireVars,
              lockVars, camVars, checkVars>>
notAlert == <<hostMode, busVars, webVars, storeVars, srcVars, wireVars,
              lockVars, camVars, checkVars>>
notCam == <<hostMode, busVars, webVars, storeVars, alertVars, srcVars,
            wireVars, lockVars, checkVars>>
notCheck == <<hostMode, busVars, webVars, storeVars, srcVars, wireVars,
              lockVars, camVars>>
notSrc == <<hostMode, busVars, webVars, storeVars, alertVars, wireVars,
            lockVars, camVars, checkVars>>

(***************************************************************************)
(* Helpers                                                                 *)
(***************************************************************************)

\* A Python dict with key k removed.
DictDel(d, k) == [x \in (DOMAIN d) \ {k} |-> d[x]]

\* A Python dict with d[k] = v assigned.
DictSet(d, k, v) == [x \in (DOMAIN d) \cup {k} |-> IF x = k THEN v ELSE d[x]]

\* The empty dict.
EmptyDict == [x \in {} |-> 0]

(***************************************************************************)
(* Subscriber callbacks (both buses)                                       *)
(***************************************************************************)

Topics == {"t1", "t2"}

\* The callbacks of the model: "cbOk" never raises, any call of "cbBad" may
\* raise an Exception.
Callbacks == {"cbOk", "cbBad"}

RaiseOutcomes(cb) == IF cb = "cbBad" THEN {TRUE, FALSE} ELSE {FALSE}

\* The payloads of the recorded calls made for a topic, in order.
RECURSIVE PayloadsOn(_, _)
PayloadsOn(calls, topic) ==
    IF calls = <<>> THEN <<>>
    ELSE (IF calls[1].topic = topic THEN <<calls[1].payload>> ELSE <<>>)
             \o PayloadsOn(Tail(calls), topic)

\* Number of occurrences of x in a list.
RECURSIVE CountIn(_, _)
CountIn(list, x) ==
    IF list = <<>> THEN 0
    ELSE (IF list[1] = x THEN 1 ELSE 0) + CountIn(Tail(list), x)

\* [cb for cb in list if cb is not x]
RECURSIVE Without(_, _)
Without(list, x) ==
    IF list = <<>> THEN <<>>
    ELSE (IF list[1] = x THEN <<>> ELSE <<list[1]>>) \o Without(Tail(list), x)

(***************************************************************************)
(* EventBus: the cooperative-tick bus                                      *)
(***************************************************************************)

\* range(50): messages processed per tick.
PollBatch == 50

\* Bounds of the model: publishes in SpecBus and publishes in SpecTick.
MaxPublish == 2
MaxTickPublish == 52

\* the inner try/except left out: the first raising callback ends the loop
\* and the exception leaves _poll
BusDispatchNoCatch(cbs, topic, payload, raises, inv) ==
    LET stopAt == IF \E i \in 1..Len(cbs) : raises[i]
                  THEN CHOOSE i \in 1..Len(cbs) :
                           raises[i] /\ \A j \in 1..(i - 1) : ~raises[j]
                  ELSE Len(cbs)
        RECURSIVE Walk(_, _)
        Walk(i, acc) ==
            IF i > stopAt THEN acc
            ELSE Walk(i + 1,
                      [acc EXCEPT ![cbs[i]] =
                          Append(@, [topic |-> topic, payload |-> payload,
                                     raised |-> raises[i]])])
    IN  [invoked |-> Walk(1, inv),
         escaped |-> \E i \in 1..Len(cbs) : raises[i]]

\* for cb in subscribers: try: cb(payload) except Exception: log.
\* raises[i] tells whether the i-th call raises; the result is the calls
\* made (recorded with the topic they were made for) and whether an
\* exception left the loop.
BusDispatch(cbs, topic, payload, raises, inv) ==
    LET RECURSIVE Walk(_, _)
        Walk(i, acc) ==
            IF i > Len(cbs) THEN acc
            ELSE Walk(i + 1,
                      [acc EXCEPT ![cbs[i]] =
                          Append(@, [topic |-> topic, payload |-> payload,
                                     raised |-> raises[i]])])
    IN  [invoked |-> Walk(1, inv), escaped |-> FALSE]

\* self._subscribers.get(topic, [])
BusSubscribersOf(topic) ==
    IF topic \in DOMAIN busSubscribers THEN busSubscribers[topic] ELSE <<>>

\* EventBus.__init__: empty queue, no subscribers, first tick scheduled by
\* the _poll() call of the constructor.
BusInit ==
    /\ busQueue = <<>>
    /\ busSubscribers = EmptyDict
    /\ busInvoked = [cb \in Callbacks |-> <<>>]
    /\ busPublished = [t \in Topics |-> <<>>]
    /\ busEarly = {}
    /\ pollState = "scheduled"
    /\ pollCount = 0

\* publish(topic, payload), from any thread.
BusPublish(topic, payload) ==
    /\ hostMode = "tk"
    /\ UNCHANGED notBus
    /\ busQueue' = Append(busQueue, <<topic, payload>>)
    /\ busPublished' = [busPublished EXCEPT ![topic] = Append(@, payload)]
    /\ UNCHANGED <<busSubscribers, busInvoked, busEarly, pollState, pollCount>>

\* subscribe(topic, callback), on the main thread (between ticks).
BusSubscribe(topic, cb) ==
    /\ hostMode = "tk"
    /\ UNCHANGED notBus
    /\ pollState /= "running"
    /\ busSubscribers' =
           DictSet(busSubscribers, topic, Append(BusSubscribersOf(topic), cb))
    /\ busEarly' = IF busPublished[topic] = <<>>
                   THEN busEarly \cup {<<topic, cb>>} ELSE busEarly
    /\ UNCHANGED <<busQueue, busInvoked, busPublished, pollState, pollCount>>

\* unsubscribe(topic, callback), on the main thread (between ticks).
BusUnsubscribe(topic, cb) ==
    /\ hostMode = "tk"
    /\ UNCHANGED notBus
    /\ pollState /= "running"
    /\ topic \in DOMAIN busSubscribers
    /\ busSubscribers' =
           [busSubscribers EXCEPT ![topic] = Without(@, cb)]
    /\ busEarly' = busEarly \ {<<topic, cb>>}
    /\ UNCHANGED <<busQueue, busInvoked, busPublished, pollState, pollCount>>

\* The timer set by root.after(50, self._poll) fires: _poll starts.
PollStart ==
    /\ hostMode = "tk"
    /\ UNCHANGED notBus
    /\ pollState = "scheduled"
    /\ pollState' = "running"
    /\ pollCount' = 0
    /\ UNCHANGED <<busQueue, busSubscribers, busInvoked, busPublished, busEarly>>

\* One iteration of the range(50) loop that gets a message: the message is
\* dispatched to the topic's subscribers.
PollDeliver ==
    /\ hostMode = "tk"
    /\ UNCHANGED notBus
    /\ pollState = "running"
    /\ pollCount < PollBatch
    /\ busQueue /= <<>>
    /\ LET topic == Head(busQueue)[1]
           payload == Head(busQueue)[2]
           cbs == BusSubscribersOf(topic)
       IN  \E raises \in [1..Len(cbs) -> BOOLEAN] :
               /\ \A i \in 1..Len(cbs) : raises[i] \in RaiseOutcomes(cbs[i])
               /\ LET res == BusDispatch(cbs, topic, payload, raises, busInvoked)
                  IN  /\ busInvoked' = res.invoked
                      /\ pollState' = IF res.escaped THEN "dead" ELSE "running"
    /\ busQueue' = Tail(busQueue)
    /\ pollCount' = pollCount + 1
    /\ UNCHANGED <<busSubscribers, busPublished, busEarly>>

\* a tick that reaches its 50 messages throws the rest of the queue away
PollEndDrops ==
    /\ hostMode = "tk"
    /\ UNCHANGED notBus
    /\ pollState = "running"
    /\ pollCount = PollBatch \/ busQueue = <<>>
    /\ pollState' = "scheduled"
    /\ busQueue' = <<>>
    /\ UNCHANGED <<busSubscribers, busInvoked, busPublished, busEarly,
                   pollCount>>

\* The loop ends, by get_nowait() raising Empty or after 50 messages, and
\* root.after(50, self._poll) schedules the next tick.
PollEnd ==
    /\ hostMode = "tk"
    /\ UNCHANGED notBus
    /\ pollState = "running"
    /\ pollCount = PollBatch \/ busQueue = <<>>
    /\ pollState' = "scheduled"
    /\ UNCHANGED <<busQueue, busSubscribers, busInvoked, busPublished, busEarly,
                   pollCount>>

\* The payloads of a topic still in the queue, in order.
RECURSIVE Pending(_, _)
Pending(queue, topic) ==
    IF queue = <<>> THEN <<>>
    ELSE (IF queue[1][1] = topic THEN <<queue[1][2]>> ELSE <<>>)
             \o Pending(Tail(queue), topic)

TotalPublished == Len(busPublished["t1"]) + Len(busPublished["t2"])

\* The tick bus with two topics, two callbacks, each registered at most
\* once per topic, and a few messages; the i-th payload published is i.
BusNext ==
    \/ \E t \in Topics :
           TotalPublished < MaxPublish /\ BusPublish(t, TotalPublished + 1)
    \/ \E t \in Topics : \E cb \in Callbacks :
           CountIn(BusSubscribersOf(t), cb) = 0 /\ BusSubscribe(t, cb)
    \/ \E t \in Topics : \E cb \in Callbacks : BusUnsubscribe(t, cb)
    \/ PollStart
    \/ PollDeliver
    \/ PollEnd

\* The tick bus with one topic and one subscriber, registered before the
\* first or before the second publish, and more messages than one tick
\* drains; the i-th payload published is i.
TickNext ==
    \/ /\ TotalPublished < MaxTickPublish
       /\ BusPublish("t1", TotalPublished + 1)
    \/ /\ TotalPublished <= 1
       /\ BusSubscribersOf("t1") = <<>>
       /\ BusSubscribe("t1", "cbOk")
    \/ PollStart
    \/ PollDeliver
    \/ PollEnd

(***************************************************************************)
(* WebEventBus: the direct-dispatch bus                                    *)
(***************************************************************************)

\* Queue(maxsize=100) of an SSE client.
SseQueueSize == 100

\* The threads that call publish().
WebThreads == {"w1", "w2"}

SseClientIds == {"c1", "c2"}

\* self._subscribers.get(topic, [])
WebSubscribersOf(topic) ==
    IF topic \in DOMAIN webSubscribers THEN webSubscribers[topic] ELSE <<>>

\* for q in self._sse_clients: q.put_nowait(msg), a Full queue marking the
\* client dead; then every dead client is removed from the list. The
\* result is the queues and the client list afterwards, and the clients
\* found full.
RECURSIVE SseFanOut(_, _, _, _, _)
SseFanOut(i, clients, queues, msg, dead) ==
    IF i > Len(clients)
    THEN [queues |-> queues,
          clients |-> SelectSeq(clients, LAMBDA c : c \notin dead),
          dead |-> dead]
    ELSE LET q == clients[i] IN
         IF Len(queues[q]) < SseQueueSize
         THEN SseFanOut(i + 1, clients,
                        [queues EXCEPT ![q] = Append(@, msg)], msg, dead)
         ELSE SseFanOut(i + 1, clients, queues, msg, dead \cup {q})

\* the try/except around cb(payload) left out: a raising callback ends
\* publish() with the exception
WebCallNoCatch(cb, topic, payload, raised, inv) ==
    [invoked |-> [inv EXCEPT ![cb] =
                     Append(@, [topic |-> topic, payload |-> payload,
                                raised |-> raised])],
     escaped |-> raised]

\* try: cb(payload) except Exception: log. The result is the call made and
\* whether an exception left the loop.
WebCall(cb, topic, payload, raised, inv) ==
    [invoked |-> [inv EXCEPT ![cb] =
                     Append(@, [topic |-> topic, payload |-> payload,
                                raised |-> raised])],
     escaped |-> FALSE]

\* No get_latest() call made yet.
NoSnapshot == [called |-> FALSE]

\* WebEventBus.__init__
WebInit ==
    /\ webLatest = EmptyDict
    /\ sseClients = <<>>
    /\ sseQueue = [c \in SseClientIds |-> <<>>]
    /\ webSubscribers = EmptyDict
    /\ webInvoked = [cb \in Callbacks |-> <<>>]
    /\ webPublished = [t \in Topics |-> <<>>]
    /\ webEarly = {}
    /\ webPc = [th \in WebThreads |-> "idle"]
    /\ webMsg = [th \in WebThreads |-> <<>>]
    /\ webIdx = [th \in WebThreads |-> 0]
    /\ webResult = [th \in WebThreads |-> "none"]
    /\ sseOpen = {}
    /\ sseLast = [c \in SseClientIds |-> <<>>]
    /\ sseDropped = [c \in SseClientIds |-> 0]
    /\ webSnapshot = NoSnapshot
    /\ webDead = [th \in WebThreads |-> <<>>]
    /\ webUnserved = [th \in WebThreads |-> {}]

\* publish(topic, payload) is entered by thread th: under the lock,
\* _latest[topic] = payload.
WebPublishBegin(th, topic, payload) ==
    /\ hostMode = "web"
    /\ UNCHANGED <<notWeb, webDead, webUnserved>>
    /\ webPc[th] = "idle"
    /\ webLatest' = DictSet(webLatest, topic, payload)
    /\ webPublished' = [webPublished EXCEPT ![topic] = Append(@, payload)]
    /\ webMsg' = [webMsg EXCEPT ![th] = <<topic, payload>>]
    /\ webPc' = [webPc EXCEPT ![th] = "sse"]
    /\ webResult' = [webResult EXCEPT ![th] = "none"]
    /\ UNCHANGED <<sseClients, sseQueue, webSubscribers, webInvoked, webEarly,
                   webIdx, sseOpen, sseLast, sseDropped, webSnapshot>>

\* The SSE part of publish() run without another thread touching
\* _sse_clients meanwhile, which is all that can happen with at most one
\* client: the message is put on every client queue and
\* the clients found full are removed. The loop over the topic's
\* subscribers starts next, on the list registered for the topic, or does
\* nothing when the topic has none.
WebNotifySse(th) ==
    /\ hostMode = "web"
    /\ UNCHANGED <<notWeb, webDead, webUnserved>>
    /\ webPc[th] = "sse"
    /\ LET out == SseFanOut(1, sseClients, sseQueue, webMsg[th], {})
       IN  /\ sseQueue' = out.queues
           /\ sseClients' = out.clients
           /\ sseDropped' = [c \in SseClientIds |->
                                 IF c \in out.dead THEN sseDropped[c] + 1
                                 ELSE sseDropped[c]]
    /\ IF webMsg[th][1] \in DOMAIN webSubscribers
       THEN /\ webPc' = [webPc EXCEPT ![th] = "subs"]
            /\ webIdx' = [webIdx EXCEPT ![th] = 1]
            /\ UNCHANGED webResult
       ELSE /\ webPc' = [webPc EXCEPT ![th] = "idle"]
            /\ webResult' = [webResult EXCEPT ![th] = "returned"]
            /\ UNCHANGED webIdx
    /\ UNCHANGED <<webLatest, webSubscribers, webInvoked, webPublished,
                   webEarly, webMsg, sseOpen, sseLast, webSnapshot>>

\* The clients registered in a list.
Registered(clients) == {clients[i] : i \in 1..Len(clients)}

\* The SSE part of publish() step by step, as it runs next to the threads
\* that append to and remove from _sse_clients without a lock. `for q in
\* self._sse_clients` starts: the list iterator stands at the first
\* position and dead is empty.
WebSseBegin(th) ==
    /\ hostMode = "web"
    /\ UNCHANGED notWeb
    /\ webPc[th] = "sse"
    /\ webPc' = [webPc EXCEPT ![th] = "sseloop"]
    /\ webIdx' = [webIdx EXCEPT ![th] = 1]
    /\ webDead' = [webDead EXCEPT ![th] = <<>>]
    /\ webUnserved' = [webUnserved EXCEPT ![th] = Registered(sseClients)]
    /\ UNCHANGED <<webLatest, sseClients, sseQueue, webSubscribers, webInvoked,
                   webPublished, webEarly, webMsg, webResult, sseOpen, sseLast,
                   sseDropped, webSnapshot>>

\* One iteration of the loop: the iterator returns the queue at its
\* position in the list as the list is now, and q.put_nowait(msg) either
\* queues the message or raises Full, which appends q to dead.
WebSsePut(th) ==
    /\ hostMode = "web"
    /\ UNCHANGED notWeb
    /\ webPc[th] = "sseloop"
    /\ webIdx[th] <= Len(sseClients)
    /\ LET q == sseClients[webIdx[th]] IN
           /\ IF Len(sseQueue[q]) < SseQueueSize
              THEN /\ sseQueue' = [sseQueue EXCEPT ![q] = Append(@, webMsg[th])]
                   /\ UNCHANGED <<webDead, sseDropped>>
              ELSE /\ webDead' = [webDead EXCEPT ![th] = Append(@, q)]
                   /\ sseDropped' = [sseDropped EXCEPT ![q] = @ + 1]
                   /\ UNCHANGED sseQueue
           /\ webUnserved' = [webUnserved EXCEPT ![th] = @ \ {q}]
    /\ webIdx' = [webIdx EXCEPT ![th] = @ + 1]
    /\ UNCHANGED <<webLatest, sseClients, webSubscribers, webInvoked,
                   webPublished, webEarly, webPc, webMsg, webResult, sseOpen,
                   sseLast, webSnapshot>>

\* The iterator's position is past the end of the list as it is now: the
\* loop ends, the queues of dead are removed from _sse_clients, and the
\* loop over the topic's subscribers starts next.
WebSseEnd(th) ==
    /\ hostMode = "web"
    /\ UNCHANGED notWeb
    /\ webPc[th] = "sseloop"
    /\ webIdx[th] > Len(sseClients)
    /\ sseClients' = SelectSeq(sseClients,
                               LAMBDA c : c \notin Registered(webDead[th]))
    /\ webDead' = [webDead EXCEPT ![th] = <<>>]
    /\ webUnserved' = [webUnserved EXCEPT ![th] = {}]
    /\ IF webMsg[th][1] \in DOMAIN webSubscribers
       THEN /\ webPc' = [webPc EXCEPT ![th] = "subs"]
            /\ webIdx' = [webIdx EXCEPT ![th] = 1]
            /\ UNCHANGED webResult
       ELSE /\ webPc' = [webPc EXCEPT ![th] = "idle"]
            /\ webResult' = [webResult EXCEPT ![th] = "returned"]
            /\ UNCHANGED webIdx
    /\ UNCHANGED <<webLatest, sseQueue, webSubscribers, webInvoked,
                   webPublished, webEarly, webMsg, sseOpen, sseLast,
                   sseDropped, webSnapshot>>

\* One iteration of the loop over the topic's subscribers: the next
\* callback of the list is called on the publisher's thread.
WebDeliver(th) ==
    /\ hostMode = "web"
    /\ UNCHANGED <<notWeb, webDead, webUnserved>>
    /\ webPc[th] = "subs"
    /\ webIdx[th] <= Len(webSubscribers[webMsg[th][1]])
    /\ LET topic == webMsg[th][1]
           payload == webMsg[th][2]
           cb == webSubscribers[topic][webIdx[th]]
       IN  \E raised \in RaiseOutcomes(cb) :
               LET res == WebCall(cb, topic, payload, raised, webInvoked)
               IN  /\ webInvoked' = res.invoked
                   /\ IF res.escaped
                      THEN /\ webPc' = [webPc EXCEPT ![th] = "idle"]
                           /\ webResult' = [webResult EXCEPT ![th] = "raised"]
                           /\ UNCHANGED webIdx
                      ELSE /\ webIdx' = [webIdx EXCEPT ![th] = @ + 1]
                           /\ UNCHANGED <<webPc, webResult>>
    /\ UNCHANGED <<webLatest, sseClients, sseQueue, webSubscribers,
                   webPublished, webEarly, webMsg, sseOpen, sseLast,
                   sseDropped, webSnapshot>>

\* The loop over the subscribers is exhausted: publish() returns.
WebReturn(th) ==
    /\ hostMode = "web"
    /\ UNCHANGED <<notWeb, webDead, webUnserved>>
    /\ webPc[th] = "subs"
    /\ webIdx[th] > Len(webSubscribers[webMsg[th][1]])
    /\ webPc' = [webPc EXCEPT ![th] = "idle"]
    /\ webResult' = [webResult EXCEPT ![th] = "returned"]
    /\ UNCHANGED <<webLatest, sseClients, sseQueue, webSubscribers, webInvoked,
                   webPublished, webEarly, webMsg, webIdx, sseOpen, sseLast,
                   sseDropped, webSnapshot>>

\* subscribe(topic, callback), from any thread at any time.
WebSubscribe(topic, cb) ==
    /\ hostMode = "web"
    /\ UNCHANGED <<notWeb, webDead, webUnserved>>
    /\ webSubscribers' =
           DictSet(webSubscribers, topic, Append(WebSubscribersOf(topic), cb))
    /\ webEarly' = IF topic \notin DOMAIN webPublished \/ webPublished[topic] = <<>>
                   THEN webEarly \cup {<<topic, cb>>} ELSE webEarly
    /\ UNCHANGED <<webLatest, sseClients, sseQueue, webInvoked, webPublished,
                   webPc, webMsg, webIdx, webResult, sseOpen, sseLast,
                   sseDropped, webSnapshot>>

\* get_latest() without a topic (None, like any falsy topic, is "").
NoTopic == ""

\* return self._latest: the cache itself, which later publishes change
GetLatestAllAlias == [alias |-> TRUE, dict |-> webLatest]

\* dict(self._latest), under the lock: a copy of the cache
GetLatestAll == [alias |-> FALSE, dict |-> webLatest]

\* get_latest(topic): self._latest.get(topic) when a topic is given, a
\* payload being <<payload>> and None <<>>; the copy of the cache otherwise.
GetLatest(topic) ==
    IF topic /= NoTopic
    THEN IF topic \in DOMAIN webLatest THEN <<webLatest[topic]>> ELSE <<>>
    ELSE GetLatestAll

\* What the holder of a dict returned by get_latest() reads in it now.
SnapshotValue(snap) == IF snap.alias THEN webLatest ELSE snap.dict

\* A call of get_latest(), from any thread at any time (web_app.py calls it
\* without a topic): what it returned is kept, with what had been
\* published when it was called.
WebGetLatest ==
    /\ hostMode = "web"
    /\ UNCHANGED <<notWeb, webDead, webUnserved>>
    /\ webSnapshot' = [called |-> TRUE, ret |-> GetLatest(NoTopic),
                       published |-> webPublished]
    /\ UNCHANGED <<webLatest, sseClients, sseQueue, webSubscribers, webInvoked,
                   webPublished, webEarly, webPc, webMsg, webIdx, webResult,
                   sseOpen, sseLast, sseDropped>>

\* sse_stream() is entered for client c: q = Queue(maxsize=100), appended
\* to _sse_clients.
SseConnect(c) ==
    /\ hostMode = "web"
    /\ UNCHANGED <<notWeb, webDead, webUnserved>>
    /\ c \notin sseOpen
    /\ sseOpen' = sseOpen \cup {c}
    /\ sseQueue' = [sseQueue EXCEPT ![c] = <<>>]
    /\ sseClients' = Append(sseClients, c)
    /\ sseLast' = [sseLast EXCEPT ![c] = <<>>]
    /\ sseDropped' = [sseDropped EXCEPT ![c] = 0]
    /\ UNCHANGED <<webLatest, webSubscribers, webInvoked, webPublished,
                   webEarly, webPc, webMsg, webIdx, webResult, webSnapshot>>

\* One turn of the generator's loop with a message waiting: q.get()
\* returns it and it is yielded. The generator runs on whether or not a
\* publish() has removed its queue from _sse_clients.
SseGet(c) ==
    /\ hostMode = "web"
    /\ UNCHANGED <<notWeb, webDead, webUnserved>>
    /\ c \in sseOpen
    /\ sseQueue[c] /= <<>>
    /\ sseLast' = [sseLast EXCEPT ![c] = <<"data", Head(sseQueue[c])>>]
    /\ sseQueue' = [sseQueue EXCEPT ![c] = Tail(@)]
    /\ UNCHANGED <<webLatest, sseClients, webSubscribers, webInvoked,
                   webPublished, webEarly, webPc, webMsg, webIdx, webResult,
                   sseOpen, sseDropped, webSnapshot>>

\* a generator that puts its queue back on _sse_clients when q.get() times
\* out
SseKeepaliveRejoin(c) ==
    /\ hostMode = "web"
    /\ UNCHANGED <<notWeb, webDead, webUnserved>>
    /\ c \in sseOpen
    /\ sseQueue[c] = <<>>
    /\ sseLast' = [sseLast EXCEPT ![c] = <<"keepalive">>]
    /\ sseClients' = IF \E i \in 1..Len(sseClients) : sseClients[i] = c
                     THEN sseClients ELSE Append(sseClients, c)
    /\ UNCHANGED <<webLatest, sseQueue, webSubscribers, webInvoked,
                   webPublished, webEarly, webPc, webMsg, webIdx, webResult,
                   sseOpen, sseDropped, webSnapshot>>

\* One turn of the loop with the queue empty for 30 seconds: queue.Empty,
\* and (None, None) is yielded as a keepalive.
SseKeepalive(c) ==
    /\ hostMode = "web"
    /\ UNCHANGED <<notWeb, webDead, webUnserved>>
    /\ c \in sseOpen
    /\ sseQueue[c] = <<>>
    /\ sseLast' = [sseLast EXCEPT ![c] = <<"keepalive">>]
    /\ UNCHANGED <<webLatest, sseClients, sseQueue, webSubscribers, webInvoked,
                   webPublished, webEarly, webPc, webMsg, webIdx, webResult,
                   sseOpen, sseDropped, webSnapshot>>

\* The client goes away (GeneratorExit): finally, the queue is removed
\* from _sse_clients if it is still there (ValueError otherwise, which is
\* passed over). The generator's
\* queue, with what was left in it, is gone with the generator.
SseClose(c) ==
    /\ hostMode = "web"
    /\ UNCHANGED <<notWeb, webDead>>
    /\ webUnserved' = [th \in WebThreads |-> webUnserved[th] \ {c}]
    /\ c \in sseOpen
    /\ sseOpen' = sseOpen \ {c}
    /\ sseClients' = SelectSeq(sseClients, LAMBDA q : q /= c)
    /\ sseQueue' = [sseQueue EXCEPT ![c] = <<>>]
    /\ sseLast' = [sseLast EXCEPT ![c] = <<>>]
    /\ sseDropped' = [sseDropped EXCEPT ![c] = 0]
    /\ UNCHANGED <<webLatest, webSubscribers, webInvoked, webPublished,
                   webEarly, webPc, webMsg, webIdx, webResult, webSnapshot>>

WebTotalPublished == Len(webPublished["t1"]) + Len(webPublished["t2"])

\* The web bus with one publisher thread, two topics, two callbacks, each
\* registered at most once per topic, and a few messages; the i-th payload
\* published is i.
WebNext ==
    \/ \E t \in Topics :
           /\ WebTotalPublished < MaxPublish
           /\ WebPublishBegin("w1", t, WebTotalPublished + 1)
    \/ WebNotifySse("w1")
    \/ WebDeliver("w1")
    \/ WebReturn("w1")
    \/ \E t \in Topics : \E cb \in Callbacks :
           CountIn(WebSubscribersOf(t), cb) = 0 /\ WebSubscribe(t, cb)

(***************************************************************************)
(* EventBus: properties                                                    *)
(***************************************************************************)

\* Callback cb is the topic's only subscriber and was registered before the
\* topic's first publish.
SoleEarlySubscriber(topic, cb) ==
    /\ BusSubscribersOf(topic) = <<cb>>
    /\ <<topic, cb>> \in busEarly

\* C1: with a single subscriber registered on the topic before the first
\* publish, the calls made to the subscriber followed by the topic's
\* messages still queued are p_1..p_N in publish order, at every moment and
\* however the ticks of at most 50 messages cut the queue; so once the
\* queue is drained the callback has been invoked exactly N times, with
\* p_1..p_N in order.
C1_TickDeliversInOrder ==
    \A cb \in Callbacks :
        SoleEarlySubscriber("t1", cb) =>
            /\ PayloadsOn(busInvoked[cb], "t1") \o Pending(busQueue, "t1")
                   = busPublished["t1"]
            /\ busQueue = <<>> =>
                   /\ Len(busInvoked[cb]) = Len(busPublished["t1"])
                   /\ \A i \in 1..Len(busInvoked[cb]) :
                          busInvoked[cb][i].payload = busPublished["t1"][i]

\* C1 witness: a tick has stopped at its 50th message with messages left
\* in the queue, the early subscriber having received the 50 in order.
C1_Witness ==
    /\ SoleEarlySubscriber("t1", "cbOk")
    /\ pollState = "running"
    /\ pollCount = PollBatch
    /\ busQueue /= <<>>
    /\ Len(busPublished["t1"]) = MaxTickPublish
    /\ Len(busInvoked["cbOk"]) >= PollBatch

\* Position of the first occurrence of x in a list (0 when absent).
IndexOf(list, x) ==
    IF \E i \in 1..Len(list) : list[i] = x
    THEN CHOOSE i \in 1..Len(list) : list[i] = x /\ \A j \in 1..(i - 1) : list[j] /= x
    ELSE 0

\* All but the last element of a list.
Front(list) == SubSeq(list, 1, Len(list) - 1)

\* Tick bus: a callback registered once on a topic before the topic's first
\* publish has been called, whatever raised, with every payload of the
\* topic that has left the queue, in publish order.
TickIsolation ==
    \A t \in Topics : \A cb \in Callbacks :
        (<<t, cb>> \in busEarly /\ CountIn(BusSubscribersOf(t), cb) = 1) =>
            PayloadsOn(busInvoked[cb], t) \o Pending(busQueue, t) = busPublished[t]

\* Web bus, publisher w1: a callback registered once on a topic before the
\* topic's first publish has been called, whatever raised, with every
\* payload published on the topic, the one being published included as
\* soon as the loop of that publish() has passed the callback.
WebIsolation ==
    \A t \in Topics : \A cb \in Callbacks :
        (<<t, cb>> \in webEarly /\ CountIn(WebSubscribersOf(t), cb) = 1) =>
            LET reached ==
                    \/ webPc["w1"] = "idle"
                    \/ webMsg["w1"][1] /= t
                    \/ /\ webPc["w1"] = "subs"
                       /\ IndexOf(webSubscribers[t], cb) < webIdx["w1"]
            IN  PayloadsOn(webInvoked[cb], t) =
                    IF reached THEN webPublished[t] ELSE Front(webPublished[t])

\* C2: in both buses a callback that raises on p_k stops neither the
\* delivery of p_k to the topic's other subscribers nor the delivery of
\* p_(k+1) to itself and to the others; the exception never ends a
\* publish() of the web bus and never leaves _poll without its next tick
\* scheduled.
C2_FaultIsolation ==
    /\ pollState /= "dead"
    /\ \A th \in WebThreads : webResult[th] /= "raised"
    /\ TickIsolation
    /\ WebIsolation

\* C2 witness (web bus): cbBad, first in the topic's list, raised on p_1;
\* cbOk was still called with p_1, both were called with p_2, and both
\* publish() calls returned.
C2_Witness ==
    /\ WebSubscribersOf("t1") = <<"cbBad", "cbOk">>
    /\ webPublished["t1"] = <<1, 2>>
    /\ Len(webInvoked["cbBad"]) = 2
    /\ webInvoked["cbBad"][1].raised
    /\ PayloadsOn(webInvoked["cbOk"], "t1") = <<1, 2>>
    /\ webPc["w1"] = "idle"
    /\ webResult["w1"] = "returned"

\* The same case on the tick bus: cbBad raised on p_1 in a tick that went
\* on to call cbOk with p_1 and both with p_2, and the next tick is
\* scheduled.
C2_WitnessTick ==
    /\ BusSubscribersOf("t1") = <<"cbBad", "cbOk">>
    /\ busPublished["t1"] = <<1, 2>>
    /\ Len(busInvoked["cbBad"]) = 2
    /\ busInvoked["cbBad"][1].raised
    /\ PayloadsOn(busInvoked["cbOk"], "t1") = <<1, 2>>
    /\ pollState = "scheduled"

(***************************************************************************)
(* WebEventBus: the cache of latest payloads and the SSE clients           *)
(***************************************************************************)

\* The web bus with its two publisher threads, a caller of get_latest(),
\* the raising subscriber on t1 and one SSE client;
\* the i-th payload published is i.
LatestNext ==
    \/ \E th \in WebThreads : \E t \in Topics :
           /\ WebTotalPublished < MaxPublish
           /\ WebPublishBegin(th, t, WebTotalPublished + 1)
    \/ \E th \in WebThreads : WebNotifySse(th)
    \/ \E th \in WebThreads : WebDeliver(th)
    \/ \E th \in WebThreads : WebReturn(th)
    \/ WebSubscribersOf("t1") = <<>> /\ WebSubscribe("t1", "cbBad")
    \/ WebGetLatest
    \/ SseConnect("c1")
    \/ SseGet("c1")
    \/ SseKeepalive("c1")
    \/ SseClose("c1")

\* The latest payload of every topic published so far.
LatestOf(published) ==
    [t \in {u \in Topics : published[u] /= <<>>} |->
        published[t][Len(published[t])]]

\* C19: at every moment, also while a publish() has not yet reached the
\* SSE clients or the subscribers and after a subscriber raised,
\* get_latest(topic) is the payload of the most recent publish() on the
\* topic, or None when there was none; and the dict a get_latest() call
\* returned holds, whatever is published afterwards, exactly the latest
\* payload of every topic that had been published when it was called.
C19_LatestIsLastPublished ==
    /\ \A t \in Topics :
           GetLatest(t) = IF webPublished[t] = <<>> THEN <<>>
                          ELSE <<webPublished[t][Len(webPublished[t])]>>
    /\ webSnapshot.called =>
           SnapshotValue(webSnapshot.ret) = LatestOf(webSnapshot.published)

\* C19 witness: get_latest() was called when 1 was the only payload
\* published on t1; 2 has been published since and its publish() has
\* reached neither the SSE client, which has received nothing, nor the
\* subscriber cbBad, which raised on 1. get_latest("t1") is 2 and the dict
\* returned earlier still holds 1.
C19_Witness ==
    /\ webSnapshot.called
    /\ webSnapshot.published["t1"] = <<1>>
    /\ webPublished["t1"] = <<1, 2>>
    /\ \E th \in WebThreads : webPc[th] = "sse" /\ webMsg[th] = <<"t1", 2>>
    /\ "c1" \in sseOpen
    /\ sseLast["c1"] = <<>>
    /\ Len(webInvoked["cbBad"]) = 1
    /\ webInvoked["cbBad"][1].raised
    /\ GetLatest("t1") = <<2>>
    /\ SnapshotValue(webSnapshot.ret)["t1"] = 1

\* Publishes of the SSE specification: enough to fill a client's queue
\* and overflow it.
MaxSsePublish == 102

\* The web bus with one publisher, no subscriber and one SSE client that
\* connects, reads and goes away as it likes.
SseNext ==
    \/ /\ WebTotalPublished < MaxSsePublish
       /\ WebPublishBegin("w1", "t1", WebTotalPublished + 1)
    \/ WebNotifySse("w1")
    \/ SseConnect("c1")
    \/ SseGet("c1")
    \/ SseKeepalive("c1")
    \/ SseClose("c1")

\* C20: a queue never holds more than 100 messages; a publish() that finds
\* a registered client's queue full leaves the queue as it was, the new
\* message being dropped for that client, and removes the client from
\* _sse_clients only if an earlier publish() had already found its queue
\* full.
C20_UnregisteredOnlyIfOverflowPersists ==
    [][ /\ \A c \in SseClientIds : Len(sseQueue'[c]) <= SseQueueSize
        /\ (webPc["w1"] = "sse" /\ webPc'["w1"] /= "sse") =>
               \A c \in Registered(sseClients) :
                   Len(sseQueue[c]) >= SseQueueSize =>
                       /\ sseQueue'[c] = sseQueue[c]
                       /\ c \notin Registered(sseClients') => sseDropped[c] >= 1
      ]_vars

\* The half of C20 the code keeps: the queue is bounded and an overflowing
\* publish() drops its own message and keeps the queued ones.
SseOverflowDropsNewest ==
    [][ /\ \A c \in SseClientIds : Len(sseQueue'[c]) <= SseQueueSize
        /\ (webPc["w1"] = "sse" /\ webPc'["w1"] /= "sse") =>
               \A c \in Registered(sseClients) :
                   Len(sseQueue[c]) >= SseQueueSize =>
                       sseQueue'[c] = sseQueue[c]
      ]_vars

\* The generator of client c is running and a publish() has removed its
\* queue from _sse_clients.
Unregistered(c) == c \in sseOpen /\ c \notin Registered(sseClients)

\* C37: once a publish() has unregistered a client whose queue was full,
\* nothing is put on its queue and it is not registered again; its
\* generator yields the queued messages in order and, the queue empty,
\* keepalives only; and the generator ends only when the client goes
\* away, never in a step of publish().
C37_UnregisteredClientStarves ==
    [][\A c \in SseClientIds : Unregistered(c) =>
          /\ c \in sseOpen' =>
                 /\ c \notin Registered(sseClients')
                 /\ IF sseLast'[c] = sseLast[c]
                    THEN sseQueue'[c] = sseQueue[c]
                    ELSE IF sseQueue[c] = <<>>
                    THEN /\ sseLast'[c] = <<"keepalive">>
                         /\ sseQueue'[c] = <<>>
                    ELSE /\ sseLast'[c] = <<"data", Head(sseQueue[c])>>
                         /\ sseQueue'[c] = Tail(sseQueue[c])
          /\ c \notin sseOpen' =>
                 /\ webPc' = webPc
                 /\ webPublished' = webPublished
      ]_vars

\* C37 witness: the client was unregistered by the 101st publish, one more
\* message has been published since, and the generator, having yielded
\* the 100 queued messages, is down to keepalives.
C37_Witness ==
    /\ Unregistered("c1")
    /\ sseDropped["c1"] = 1
    /\ WebTotalPublished = SseQueueSize + 2
    /\ webPc["w1"] = "idle"
    /\ sseQueue["c1"] = <<>>
    /\ sseLast["c1"] = <<"keepalive">>

\* The web bus with one publisher whose loop over _sse_clients runs step by
\* The web bus with one publisher whose loop over _sse_clients runs step by
\* step, a subscriber that may register at any time, and two SSE clients
\* that connect, read and go away as they like.
RaceNext ==
    \/ /\ WebTotalPublished < MaxPublish
       /\ WebPublishBegin("w1", "t1", WebTotalPublished + 1)
    \/ WebSseBegin("w1")
    \/ WebSsePut("w1")
    \/ WebSseEnd("w1")
    \/ WebDeliver("w1")
    \/ WebReturn("w1")
    \/ WebSubscribersOf("t1") = <<>> /\ WebSubscribe("t1", "cbOk")
    \/ \E c \in SseClientIds : SseConnect(c)
    \/ \E c \in SseClientIds : SseGet(c)
    \/ \E c \in SseClientIds : SseKeepalive(c)
    \/ \E c \in SseClientIds : SseClose(c)

\* A publish() is inside one of its delivery loops.
Delivering(th) == webPc[th] \in {"sseloop", "subs"}

\* C21: no SSE client is registered or unregistered and no subscriber is
\* registered while a publish() is inside its loop over _sse_clients or
\* over the topic's subscribers; and when the loop over _sse_clients of a
\* publish() ends, every client that was registered from its start to its
\* end, no queue having been full, has been put the message.
C21_RegistryGuardedByLock ==
    [][ /\ (sseOpen' /= sseOpen \/ webSubscribers' /= webSubscribers) =>
               \A th \in WebThreads : ~Delivering(th)
        /\ \A th \in WebThreads :
               ( /\ webPc[th] = "sseloop"
                 /\ webPc'[th] /= "sseloop"
                 /\ WebTotalPublished < SseQueueSize )
               => webUnserved[th] = {}
      ]_vars

(***************************************************************************)
(* DataStore: the buffered time-series store                               *)
(***************************************************************************)

\* Seconds per hourly Bucket, and LIMIT 100 of the downsample SELECT.
HourSeconds == 3600
DownsampleLimit == 100

\* Bounds of the model: record() calls, and clock ticks of one hour.
MaxRecords == 4
MaxStoreTicks == 1

\* The (field, value) of the k-th record() call.
RecordInput(k) ==
    << <<"x", 52>>, <<"y", 50>>, <<"x", 50>>, <<"x", 54>> >>[((k - 1) % 4) + 1]

StoreThreads == {"flush", "main"}

\* CAST(timestamp / 3600 AS INTEGER)
HourOf(ts) == ts \div HourSeconds

Min2(a, b) == IF a <= b THEN a ELSE b
Max2(a, b) == IF a >= b THEN a ELSE b

\* The rows of a set in some order (the order a SELECT returns them in).
RECURSIVE RowsOf(_)
RowsOf(rows) ==
    IF rows = {} THEN <<>>
    ELSE LET r == CHOOSE x \in rows : TRUE IN <<r>> \o RowsOf(rows \ {r})

\* the window's end taken inclusive: timestamp <= end_ts
HourRowsInclusive(table, hour, field) ==
    {r \in table : /\ r.field = field
                   /\ r.ts >= hour * HourSeconds
                   /\ r.ts <= hour * HourSeconds + HourSeconds}

\* WHERE field = ? AND timestamp >= start_ts AND timestamp < end_ts
HourRows(table, hour, field) ==
    {r \in table : /\ r.field = field
                   /\ r.ts >= hour * HourSeconds
                   /\ r.ts < hour * HourSeconds + HourSeconds}

\* SELECT AVG(value), MIN(value), MAX(value), COUNT(*) over a list of rows,
\* folded row by row; AVG is the exact quotient sum / count, kept as the
\* pair [num, den].
RECURSIVE Aggregate(_, _)
Aggregate(rows, acc) ==
    IF rows = <<>> THEN acc
    ELSE Aggregate(Tail(rows),
             IF acc.count = 0
             THEN [avg |-> [num |-> rows[1].value, den |-> 1],
                   min |-> rows[1].value, max |-> rows[1].value, count |-> 1]
             ELSE [avg |-> [num |-> acc.avg.num + rows[1].value,
                            den |-> acc.avg.den + 1],
                   min |-> Min2(acc.min, rows[1].value),
                   max |-> Max2(acc.max, rows[1].value),
                   count |-> acc.count + 1])

NoRows == [avg |-> [num |-> 0, den |-> 0], min |-> 0, max |-> 0, count |-> 0]

\* a downsample that takes the hour that is still running as complete
CutoffHourCurrent(now) == now \div HourSeconds

\* cutoff_hour = int(time.time() / 3600) - 1
CutoffHour(now) == (now \div HourSeconds) - 1

\* the outer SELECT without its NOT EXISTS: every complete hour with raw
\* rows is selected again
DownsampleCandidatesAll(table, buckets, now) ==
    {<<HourOf(r.ts), r.field>> : r \in
        {x \in table : HourOf(x.ts) <= CutoffHour(now)}}

\* The outer SELECT of _maybe_downsample: the (hour, field) pairs with raw
\* rows, hour <= cutoff_hour and no Bucket yet.
DownsampleCandidates(table, buckets, now) ==
    {<<HourOf(r.ts), r.field>> : r \in
        {x \in table : /\ HourOf(x.ts) <= CutoffHour(now)
                       /\ <<HourOf(x.ts), x.field>> \notin DOMAIN buckets}}

\* The loop of _maybe_downsample over the selected rows: one INSERT OR
\* REPLACE per pair whose COUNT(*) is positive. The aggregates are taken
\* over the raw rows, which the loop does not change, so the Buckets
\* written do not depend on the order of the rows.
WriteBuckets(rows, table, buckets) ==
    LET result(row) == Aggregate(RowsOf(HourRows(table, row[1], row[2])), NoRows)
    IN  [key \in (DOMAIN buckets) \cup {row \in rows : result(row).count > 0} |->
            IF key \in rows /\ result(key).count > 0
            THEN result(key) ELSE buckets[key]]

\* The last step was no cleanup() or query call.
NoCall == [op |-> "none"]

\* DataStore.__init__: empty buffer, empty tables, no flush thread.
StoreInit ==
    /\ stClock = 0
    /\ write_buffer = <<>>
    /\ nRecorded = 0
    /\ inBatches = EmptyDict
    /\ readings = {}
    /\ hourly_avg = EmptyDict
    /\ write_lock = "free"
    /\ stop_event = FALSE
    /\ stPc = [th \in StoreThreads |-> IF th = "flush" THEN "off" ELSE "idle"]
    /\ stBatch = [th \in StoreThreads |-> <<>>]
    /\ dsRows = {}
    /\ stPending = [th \in StoreThreads |-> {}]
    /\ stCall = NoCall
    /\ buffer_lock = "free"
    /\ recPc = "idle"

\* An hour passes.
StoreTick ==
    /\ UNCHANGED <<notStore, stPending>>
    /\ stCall' = NoCall
    /\ stClock < MaxStoreTicks * HourSeconds
    /\ stClock' = stClock + HourSeconds
    /\ UNCHANGED <<write_buffer, nRecorded, inBatches, readings, hourly_avg,
                   write_lock, stop_event, stPc, stBatch, dsRows>>

\* a record() that also writes the row through to the table
StoreRecordWriteThrough(field, value) ==
    /\ UNCHANGED <<notStore, stPending>>
    /\ stCall' = NoCall
    /\ nRecorded' = nRecorded + 1
    /\ write_buffer' = Append(write_buffer,
           [id |-> nRecorded + 1, ts |-> stClock, field |-> field, value |-> value])
    /\ inBatches' = DictSet(inBatches, nRecorded + 1, 0)
    /\ readings' = readings \cup
           {[id |-> nRecorded + 1, ts |-> stClock, field |-> field, value |-> value]}
    /\ UNCHANGED <<stClock, hourly_avg, write_lock, stop_event, stPc,
                   stBatch, dsRows>>

\* record(field, value), from any thread: under the buffer lock, the
\* reading (time.time(), field, value) is appended to the buffer.
StoreRecord(field, value) ==
    /\ UNCHANGED <<notStore, stPending>>
    /\ stCall' = NoCall
    /\ nRecorded' = nRecorded + 1
    /\ write_buffer' = Append(write_buffer,
           [id |-> nRecorded + 1, ts |-> stClock, field |-> field, value |-> value])
    /\ inBatches' = DictSet(inBatches, nRecorded + 1, 0)
    /\ UNCHANGED <<stClock, readings, hourly_avg, write_lock, stop_event, stPc,
                   stBatch, dsRows>>

\* start(): a no-op while the flush thread is alive; otherwise the stop
\* event is cleared and the flush thread started.
StoreStart ==
    /\ UNCHANGED <<notStore, stPending>>
    /\ stCall' = NoCall
    /\ stPc["flush"] \in {"off", "done"}
    /\ stop_event' = FALSE
    /\ stPc' = [stPc EXCEPT !["flush"] = "loop"]
    /\ UNCHANGED <<stClock, write_buffer, nRecorded, inBatches, readings,
                   hourly_avg, write_lock, stBatch, dsRows>>

\* stop(), on the caller's thread: the stop event is set, then
\* _flush_buffer() is entered.
StoreStop ==
    /\ UNCHANGED <<notStore, stPending>>
    /\ stCall' = NoCall
    /\ stPc["main"] = "idle"
    /\ stop_event' = TRUE
    /\ stPc' = [stPc EXCEPT !["main"] = "swap"]
    /\ UNCHANGED <<stClock, write_buffer, nRecorded, inBatches, readings,
                   hourly_avg, write_lock, stBatch, dsRows>>

\* _flush_loop: while not self._stop.is_set()
FlushLoopTest ==
    /\ UNCHANGED <<notStore, stPending>>
    /\ stCall' = NoCall
    /\ stPc["flush"] = "loop"
    /\ stPc' = [stPc EXCEPT !["flush"] = IF stop_event THEN "done" ELSE "wait"]
    /\ UNCHANGED <<stClock, write_buffer, nRecorded, inBatches, readings,
                   hourly_avg, write_lock, stop_event, stBatch, dsRows>>

\* _flush_loop: self._stop.wait(self._flush_interval) returns, by timeout
\* or because the event is set; _flush_buffer() is entered.
FlushWake ==
    /\ UNCHANGED <<notStore, stPending>>
    /\ stCall' = NoCall
    /\ stPc["flush"] = "wait"
    /\ stPc' = [stPc EXCEPT !["flush"] = "swap"]
    /\ UNCHANGED <<stClock, write_buffer, nRecorded, inBatches, readings,
                   hourly_avg, write_lock, stop_event, stBatch, dsRows>>

\* Where a thread goes on after its _flush_buffer(): the flush thread to
\* _maybe_downsample(), the caller of stop() back to its own work.
AfterFlush(th) == IF th = "flush" THEN "select" ELSE "idle"

\* _flush_buffer, first part, under the buffer lock: return if the buffer
\* is empty, else copy it to the batch and clear it.
FlushSwap(th) ==
    /\ UNCHANGED <<notStore, stPending>>
    /\ stCall' = NoCall
    /\ stPc[th] = "swap"
    /\ IF write_buffer = <<>>
       THEN /\ stPc' = [stPc EXCEPT ![th] = AfterFlush(th)]
            /\ UNCHANGED <<write_buffer, stBatch, inBatches>>
       ELSE /\ stBatch' = [stBatch EXCEPT ![th] = write_buffer]
            /\ write_buffer' = <<>>
            /\ inBatches' = [id \in DOMAIN inBatches |->
                                inBatches[id] +
                                Cardinality({k \in 1..Len(write_buffer) :
                                                write_buffer[k].id = id})]
            /\ stPc' = [stPc EXCEPT ![th] = "lock"]
    /\ UNCHANGED <<stClock, nRecorded, readings, hourly_avg, write_lock,
                   stop_event, dsRows>>

\* a _flush_buffer that goes to its INSERT without waiting for the write
\* lock
FlushAcquireNoWait(th) ==
    /\ UNCHANGED <<notStore, stPending>>
    /\ stCall' = NoCall
    /\ stPc[th] = "lock"
    /\ write_lock' = th
    /\ stPc' = [stPc EXCEPT ![th] = "insert"]
    /\ UNCHANGED <<stClock, write_buffer, nRecorded, inBatches, readings,
                   hourly_avg, stop_event, stBatch, dsRows>>

\* _flush_buffer: with self._write_lock
FlushAcquire(th) ==
    /\ UNCHANGED <<notStore, stPending>>
    /\ stCall' = NoCall
    /\ stPc[th] = "lock"
    /\ write_lock = "free"
    /\ write_lock' = th
    /\ stPc' = [stPc EXCEPT ![th] = "insert"]
    /\ UNCHANGED <<stClock, write_buffer, nRecorded, inBatches, readings,
                   hourly_avg, stop_event, stBatch, dsRows>>

\* The rows of a batch.
RowsIn(batch) == {batch[k] : k \in 1..Len(batch)}

\* What a SELECT on th's connection sees: the committed rows and the rows
\* of the connection's own open transaction.
Visible(th) == readings \cup stPending[th]

\* Another thread's connection holds a write transaction open: a write on
\* th's connection raises "database is locked".
LockedOut(th) == \E o \in StoreThreads \ {th} : stPending[o] /= {}

\* _flush_buffer: executemany(INSERT ...) and commit() succeed: the batch
\* is committed, with whatever the connection's transaction already held;
\* the lock is released.
FlushInsert(th) ==
    /\ UNCHANGED notStore
    /\ stCall' = NoCall
    /\ stPc[th] = "insert"
    /\ ~LockedOut(th)
    /\ readings' = readings \cup stPending[th] \cup RowsIn(stBatch[th])
    /\ stPending' = [stPending EXCEPT ![th] = {}]
    /\ stBatch' = [stBatch EXCEPT ![th] = <<>>]
    /\ write_lock' = "free"
    /\ stPc' = [stPc EXCEPT ![th] = AfterFlush(th)]
    /\ UNCHANGED <<stClock, write_buffer, nRecorded, inBatches, hourly_avg,
                   stop_event, dsRows>>

\* _flush_buffer: executemany raises at the k-th row of the batch; the
\* error is logged and the batch dropped. Nothing rolls the connection's
\* transaction back: the rows inserted before the k-th stay in it, for the
\* connection's next commit.
FlushInsertFail(th) ==
    /\ UNCHANGED notStore
    /\ stCall' = NoCall
    /\ stPc[th] = "insert"
    /\ \E k \in 1..Len(stBatch[th]) :
           /\ LockedOut(th) => k = 1
           /\ stPending' = [stPending EXCEPT ![th] =
                               @ \cup RowsIn(SubSeq(stBatch[th], 1, k - 1))]
    /\ stBatch' = [stBatch EXCEPT ![th] = <<>>]
    /\ write_lock' = "free"
    /\ stPc' = [stPc EXCEPT ![th] = AfterFlush(th)]
    /\ UNCHANGED <<stClock, write_buffer, nRecorded, inBatches, readings,
                   hourly_avg, stop_event, dsRows>>

\* The subsets of S with k elements.
RECURSIVE KSubsets(_, _)
KSubsets(S, k) ==
    IF k = 0 THEN {{}}
    ELSE UNION {{T \cup {x} : T \in KSubsets(S \ {x}, k - 1)} : x \in S}

\* a SELECT without its LIMIT
Unlimited(S, n) == {S}

\* LIMIT n over the rows S of a SELECT without ORDER BY: all of S when it
\* has no more than n rows, else any n rows of S.
Limited(S, n) ==
    IF Cardinality(S) <= n THEN {S}
    ELSE {S \ left : left \in KSubsets(S, Cardinality(S) - n)}

\* _maybe_downsample: the outer SELECT ... LIMIT 100, outside the write
\* lock; return if it finds no row.
DsSelect ==
    /\ UNCHANGED <<notStore, stPending>>
    /\ stCall' = NoCall
    /\ stPc["flush"] = "select"
    /\ LET cand == DownsampleCandidates(Visible("flush"), hourly_avg, stClock)
       IN  \E rows \in Limited(cand, DownsampleLimit) :
               /\ dsRows' = rows
               /\ stPc' = [stPc EXCEPT !["flush"] =
                              IF rows = {} THEN "loop" ELSE "dsLock"]
    /\ UNCHANGED <<stClock, write_buffer, nRecorded, inBatches, readings,
                   hourly_avg, write_lock, stop_event, stBatch>>

\* _maybe_downsample: with self._write_lock
DsAcquire ==
    /\ UNCHANGED <<notStore, stPending>>
    /\ stCall' = NoCall
    /\ stPc["flush"] = "dsLock"
    /\ write_lock = "free"
    /\ write_lock' = "flush"
    /\ stPc' = [stPc EXCEPT !["flush"] = "dsWrite"]
    /\ UNCHANGED <<stClock, write_buffer, nRecorded, inBatches, readings,
                   hourly_avg, stop_event, stBatch, dsRows>>

\* _maybe_downsample: the aggregate and the INSERT OR REPLACE of every
\* selected row, then commit(), which commits the Buckets with whatever the
\* connection's transaction already held; the lock is released.
DsWrite ==
    /\ UNCHANGED notStore
    /\ stCall' = NoCall
    /\ stPc["flush"] = "dsWrite"
    /\ ~LockedOut("flush")
    /\ hourly_avg' = WriteBuckets(dsRows, Visible("flush"), hourly_avg)
    /\ readings' = Visible("flush")
    /\ stPending' = [stPending EXCEPT !["flush"] = {}]
    /\ dsRows' = {}
    /\ write_lock' = "free"
    /\ stPc' = [stPc EXCEPT !["flush"] = "loop"]
    /\ UNCHANGED <<stClock, write_buffer, nRecorded, inBatches, stop_event,
                   stBatch>>

\* _maybe_downsample: the first INSERT OR REPLACE raises "database is
\* locked"; the error is logged and no Bucket is written.
DsWriteLocked ==
    /\ UNCHANGED <<notStore, stPending>>
    /\ stCall' = NoCall
    /\ stPc["flush"] = "dsWrite"
    /\ LockedOut("flush")
    /\ dsRows' = {}
    /\ write_lock' = "free"
    /\ stPc' = [stPc EXCEPT !["flush"] = "loop"]
    /\ UNCHANGED <<stClock, write_buffer, nRecorded, inBatches, readings,
                   hourly_avg, stop_event, stBatch>>

\* cleanup(max_days=7): the default retention, and the seconds of a day.
RetentionDays == 7
DaySeconds == 86400

\* Bounds of the model: clock ticks of one day, and record() calls in the
\* specifications that run over days.
MaxDayTicks == 8
MaxDayRecords == 3

\* The max_days arguments cleanup() is called with.
CleanupDays == {RetentionDays}

\* A day passes.
StoreDayTick ==
    /\ UNCHANGED <<notStore, stPending>>
    /\ stCall' = NoCall
    /\ stClock < MaxDayTicks * DaySeconds
    /\ stClock' = stClock + DaySeconds
    /\ UNCHANGED <<write_buffer, nRecorded, inBatches, readings, hourly_avg,
                   write_lock, stop_event, stPc, stBatch, dsRows>>

\* a cleanup that also deletes the rows at the cutoff: timestamp <= cutoff
CleanupDeletesInclusive(table, cutoff) == {r \in table : r.ts <= cutoff}

\* DELETE FROM readings WHERE timestamp < cutoff: the rows deleted.
CleanupDeletes(table, cutoff) == {r \in table : r.ts < cutoff}

\* cleanup(max_days), from any thread: under the write lock, the rows older
\* than time.time() - max_days * 86400 are deleted and the delete committed.
Cleanup(max_days) ==
    /\ UNCHANGED <<notStore, stPending>>
    /\ write_lock = "free"
    /\ \A th \in StoreThreads : stPending[th] = {}
    /\ LET cutoff == stClock - max_days * DaySeconds
           gone == CleanupDeletes(readings, cutoff)
       IN  /\ readings' = readings \ gone
           /\ stCall' = [op |-> "cleanup", max_days |-> max_days,
                         cutoff |-> cutoff, ok |-> TRUE,
                         rowcount |-> Cardinality(gone)]
    /\ UNCHANGED <<stClock, write_buffer, nRecorded, inBatches, hourly_avg,
                   write_lock, stop_event, stPc, stBatch, dsRows>>

\* cleanup(max_days) whose DELETE or commit raises: the error is logged and
\* nothing is deleted.
CleanupFail(max_days) ==
    /\ UNCHANGED <<notStore, stPending>>
    /\ write_lock = "free"
    /\ stCall' = [op |-> "cleanup", max_days |-> max_days,
                  cutoff |-> stClock - max_days * DaySeconds, ok |-> FALSE,
                  rowcount |-> 0]
    /\ UNCHANGED <<stClock, write_buffer, nRecorded, inBatches, readings,
                   hourly_avg, write_lock, stop_event, stPc, stBatch, dsRows>>

\* The steps of the flush thread alone, once started.
FlushThreadNext ==
    \/ StoreStart
    \/ FlushLoopTest
    \/ FlushWake
    \/ FlushSwap("flush")
    \/ FlushAcquire("flush")
    \/ FlushInsert("flush")
    \/ DsSelect
    \/ DsAcquire
    \/ DsWrite

\* The running store over days, as web_app.main runs it: producers record,
\* the flush thread flushes and downsamples; nothing calls cleanup().
RunningNext ==
    \/ StoreDayTick
    \/ /\ nRecorded < MaxDayRecords
       /\ StoreRecord(RecordInput(nRecorded + 1)[1], RecordInput(nRecorded + 1)[2])
    \/ FlushThreadNext

\* The store over days with a caller of cleanup().
RetentionNext ==
    \/ RunningNext
    \/ \E d \in CleanupDays : Cleanup(d)
    \/ \E d \in CleanupDays : CleanupFail(d)

\* ---- Queries

\* Width in seconds of the buckets of the 24-hour resolution.
BucketSecs == 300

\* int(x / d) of Python and CAST(x / d AS INTEGER) of SQLite: the quotient
\* truncated toward zero.
TruncDiv(x, d) == IF x >= 0 THEN x \div d ELSE -((-x) \div d)

\* round(num / den, 2), in hundredths: the nearest hundredth, a tie going
\* to the even one.
Round2(num, den) ==
    LET scaled == 100 * num
        low == scaled \div den
        rest == scaled - low * den
    IN  IF 2 * rest < den THEN low
        ELSE IF 2 * rest > den THEN low + 1
        ELSE IF low % 2 = 0 THEN low ELSE low + 1

\* A number of the model as the hundredths round(.., 2) returns.
Hundredths(h) == [num |-> h, den |-> 100]

\* SQLite's LIMIT n: the first n rows, every row when n is negative.
Limit(rows, n) ==
    IF n < 0 THEN rows ELSE SubSeq(rows, 1, Min2(n, Len(rows)))

\* Row a comes before row b in the index on (field, timestamp): by
\* timestamp, rows of equal timestamp in the order of their insertion,
\* which under one flushing thread is the order they were recorded in.
Before(a, b) == a.ts < b.ts \/ (a.ts = b.ts /\ a.id < b.id)

\* ORDER BY timestamp ASC over a set of rows.
RECURSIVE OrderedByTs(_)
OrderedByTs(rows) ==
    IF rows = {} THEN <<>>
    ELSE LET first == CHOOSE r \in rows : \A o \in rows \ {r} : Before(r, o)
         IN  <<first>> \o OrderedByTs(rows \ {first})

\* The numbers of a set in ascending order.
RECURSIVE Ascending(_)
Ascending(nums) ==
    IF nums = {} THEN <<>>
    ELSE LET least == CHOOSE n \in nums : \A m \in nums : n <= m
         IN  <<least>> \o Ascending(nums \ {least})

\* _raw_query
RawQuery(table, field, cutoff, limit) ==
    LET rows == Limit(OrderedByTs({r \in table :
                                      r.field = field /\ r.ts >= cutoff}),
                      limit)
    IN  [k \in 1..Len(rows) |-> [t |-> rows[k].ts, v |-> rows[k].value]]

\* CAST(timestamp / bucket_secs AS INTEGER) * bucket_secs
BucketStart(ts, bucket_secs) == TruncDiv(ts, bucket_secs) * bucket_secs

\* _averaged_query: GROUP BY bucket_start ORDER BY bucket_start LIMIT ?
AveragedQuery(table, field, cutoff, bucket_secs, limit) ==
    LET rows == {r \in table : r.field = field /\ r.ts >= cutoff}
        starts == Limit(Ascending({BucketStart(r.ts, bucket_secs) : r \in rows}),
                        limit)
        Point(start) ==
            LET agg == Aggregate(
                    RowsOf({r \in rows : BucketStart(r.ts, bucket_secs) = start}),
                    NoRows)
            IN  [t |-> start + bucket_secs \div 2,
                 v |-> Hundredths(Round2(agg.avg.num, agg.avg.den)),
                 min |-> Hundredths(Round2(agg.min, 1)),
                 max |-> Hundredths(Round2(agg.max, 1))]
    IN  [k \in 1..Len(starts) |-> Point(starts[k])]

\* _hourly_query: the Buckets of the field with hour >= int(cutoff / 3600),
\* ORDER BY hour LIMIT ?
HourlyQuery(buckets, field, cutoff, limit) ==
    LET cutoff_hour == TruncDiv(cutoff, HourSeconds)
        hours == Limit(Ascending({key[1] : key \in
                           {x \in DOMAIN buckets :
                               x[2] = field /\ x[1] >= cutoff_hour}}),
                       limit)
        Point(hour) ==
            LET b == buckets[<<hour, field>>]
            IN  [t |-> hour * HourSeconds + 1800,
                 v |-> Hundredths(Round2(b.avg.num, b.avg.den)),
                 min |-> Hundredths(Round2(b.min, 1)),
                 max |-> Hundredths(Round2(b.max, 1))]
    IN  [k \in 1..Len(hours) |-> Point(hours[k])]

\* the resolutions switched at hours < 1 and hours < 24
ResolutionStrict(hours) ==
    IF hours < 1 THEN "raw" ELSE IF hours < 24 THEN "averaged" ELSE "hourly"

\* get_history: the resolution the range selects.
Resolution(hours) ==
    IF hours <= 1 THEN "raw" ELSE IF hours <= 24 THEN "averaged" ELSE "hourly"

\* get_history(field, hours, max_points) at time now.
History(table, buckets, now, field, hours, max_points) ==
    LET cutoff == now - hours * HourSeconds
    IN  IF Resolution(hours) = "raw"
        THEN RawQuery(table, field, cutoff, max_points)
        ELSE IF Resolution(hours) = "averaged"
        THEN AveragedQuery(table, field, cutoff, BucketSecs, max_points)
        ELSE HourlyQuery(buckets, field, cutoff, max_points)

\* SELECT value ... WHERE field = ? ORDER BY timestamp DESC LIMIT 1
LatestValue(table, field) ==
    LET rows == {r \in table : r.field = field}
    IN  (CHOOSE r \in rows : \A o \in rows \ {r} : Before(o, r)).value

\* get_summary(hours) at time now: one entry per field with a committed row
\* in the window.
Summary(table, now, hours) ==
    LET cutoff == now - hours * HourSeconds
        rows == {r \in table : r.ts >= cutoff}
        fields == {r.field : r \in rows}
        SummaryOf(f) ==
            LET agg == Aggregate(RowsOf({r \in rows : r.field = f}), NoRows)
            IN  [avg |-> Hundredths(Round2(agg.avg.num, agg.avg.den)),
                 min |-> Hundredths(Round2(agg.min, 1)),
                 max |-> Hundredths(Round2(agg.max, 1)),
                 count |-> agg.count,
                 current |-> Hundredths(Round2(LatestValue(table, f), 1))]
    IN  [f \in fields |-> SummaryOf(f)]

\* Bounds of the model: record() calls and clock ticks in the
\* specification of the queries.
MaxQueryRecords == 3
MaxQueryTicks == 3

\* The arguments the queries are called with.
QueryFields == {"x"}
QueryHours == {1, 2, 25}
QueryLimits == {-1, 1, 2}

\* The seconds that pass at the k-th tick of the query clock.
QueryTickSize(k) == <<150, 3600, 3600, 86400>>[((k - 1) % 4) + 1]

\* The query clock after k ticks.
RECURSIVE QueryClockAt(_)
QueryClockAt(k) == IF k = 0 THEN 0 ELSE QueryClockAt(k - 1) + QueryTickSize(k)

\* Time passes up to the next instant of the query clock.
QueryTick ==
    /\ UNCHANGED <<notStore, stPending>>
    /\ stCall' = NoCall
    /\ \E k \in 0..(MaxQueryTicks - 1) :
           /\ stClock = QueryClockAt(k)
           /\ stClock' = QueryClockAt(k + 1)
    /\ UNCHANGED <<write_buffer, nRecorded, inBatches, readings, hourly_avg,
                   write_lock, stop_event, stPc, stBatch, dsRows>>

\* get_history(field, hours, max_points), on a thread with a connection of
\* its own: it reads the committed tables.
GetHistory(field, hours, max_points) ==
    /\ UNCHANGED <<notStore, stPending>>
    /\ stCall' = [op |-> "get_history", field |-> field, hours |-> hours,
                  max_points |-> max_points,
                  result |-> History(readings, hourly_avg, stClock, field,
                                     hours, max_points)]
    /\ UNCHANGED <<stClock, write_buffer, nRecorded, inBatches, readings,
                   hourly_avg, write_lock, stop_event, stPc, stBatch, dsRows>>

\* get_summary(hours), on a thread with a connection of its own.
GetSummary(hours) ==
    /\ UNCHANGED <<notStore, stPending>>
    /\ stCall' = [op |-> "get_summary", hours |-> hours,
                  result |-> Summary(readings, stClock, hours)]
    /\ UNCHANGED <<stClock, write_buffer, nRecorded, inBatches, readings,
                   hourly_avg, write_lock, stop_event, stPc, stBatch, dsRows>>

\* The running store with clients that query it.
QueryNext ==
    \/ QueryTick
    \/ /\ nRecorded < MaxQueryRecords
       /\ StoreRecord(RecordInput(nRecorded + 1)[1], RecordInput(nRecorded + 1)[2])
    \/ FlushThreadNext
    \/ \E f \in QueryFields : \E h \in QueryHours : \E n \in QueryLimits :
           GetHistory(f, h, n)
    \/ \E h \in QueryHours : GetSummary(h)

\* The steps of the store's threads: start(), stop(), the flush thread and
\* the flush run by stop().
StoreThreadsNext ==
    \/ StoreStart
    \/ StoreStop
    \/ FlushLoopTest
    \/ FlushWake
    \/ \E th \in StoreThreads : FlushSwap(th)
    \/ \E th \in StoreThreads : FlushAcquire(th)
    \/ \E th \in StoreThreads : FlushInsert(th)
    \/ \E th \in StoreThreads : FlushInsertFail(th)
    \/ DsSelect
    \/ DsAcquire
    \/ DsWrite
    \/ DsWriteLocked

\* The store with every interleaving of its threads and of the record()
\* calls of the producers.
StoreNext ==
    \/ StoreTick
    \/ /\ nRecorded < MaxRecords
       /\ StoreRecord(RecordInput(nRecorded + 1)[1], RecordInput(nRecorded + 1)[2])
    \/ StoreThreadsNext

(***************************************************************************)
(* DataStore: the buffer lock                                              *)
(*                                                                         *)
(* record() and the first part of _flush_buffer() with the acquire and the *)
(* release of _buffer_lock as steps of their own, so that what a thread    *)
(* does while it holds the lock can be seen.                               *)
(***************************************************************************)

\* Bound of the model: record() calls under the specification of the locks.
MaxLockRecords == 2

\* The max_days arguments cleanup() is called with under the specification
\* of the locks: the default, and 0, which deletes every row of the past.
LockCleanupDays == {0, RetentionDays}

\* What a step on the store and its buffer lock leaves alone.
notLocked == <<hostMode, busVars, webVars, alertVars, srcVars, wireVars,
               camVars, checkVars>>

\* record(): with self._buffer_lock, entered by the producer's thread.
RecordEnter ==
    /\ UNCHANGED <<notLocked, stPending>>
    /\ stCall' = NoCall
    /\ recPc = "idle"
    /\ nRecorded < MaxLockRecords
    /\ buffer_lock = "free"
    /\ buffer_lock' = "producer"
    /\ recPc' = "append"
    /\ UNCHANGED <<stClock, write_buffer, nRecorded, inBatches, readings,
                   hourly_avg, write_lock, stop_event, stPc, stBatch, dsRows>>

\* record(): the append, and the end of the with block.
RecordAppend(field, value) ==
    /\ UNCHANGED <<notLocked, stPending>>
    /\ stCall' = NoCall
    /\ recPc = "append"
    /\ nRecorded' = nRecorded + 1
    /\ write_buffer' = Append(write_buffer,
           [id |-> nRecorded + 1, ts |-> stClock, field |-> field, value |-> value])
    /\ inBatches' = DictSet(inBatches, nRecorded + 1, 0)
    /\ buffer_lock' = "free"
    /\ recPc' = "idle"
    /\ UNCHANGED <<stClock, readings, hourly_avg, write_lock, stop_event, stPc,
                   stBatch, dsRows>>

\* _flush_buffer: with self._buffer_lock, entered by thread th.
SwapEnter(th) ==
    /\ UNCHANGED <<notLocked, stPending, recPc>>
    /\ stCall' = NoCall
    /\ stPc[th] = "swap"
    /\ buffer_lock = "free"
    /\ buffer_lock' = th
    /\ stPc' = [stPc EXCEPT ![th] = "held"]
    /\ UNCHANGED <<stClock, write_buffer, nRecorded, inBatches, readings,
                   hourly_avg, write_lock, stop_event, stBatch, dsRows>>

\* _flush_buffer, inside the buffer lock: return if the buffer is empty,
\* else copy it to the batch and clear it; the thread leaves the block with
\* the buffer lock in state lock.
SwapLeaveWith(th, lock) ==
    /\ UNCHANGED <<notLocked, stPending, recPc>>
    /\ stCall' = NoCall
    /\ stPc[th] = "held"
    /\ IF write_buffer = <<>>
       THEN /\ stPc' = [stPc EXCEPT ![th] = AfterFlush(th)]
            /\ buffer_lock' = "free"
            /\ UNCHANGED <<write_buffer, stBatch, inBatches>>
       ELSE /\ stBatch' = [stBatch EXCEPT ![th] = write_buffer]
            /\ write_buffer' = <<>>
            /\ inBatches' = [id \in DOMAIN inBatches |->
                                inBatches[id] +
                                Cardinality({k \in 1..Len(write_buffer) :
                                                write_buffer[k].id = id})]
            /\ stPc' = [stPc EXCEPT ![th] = "lock"]
            /\ buffer_lock' = lock
    /\ UNCHANGED <<stClock, nRecorded, readings, hourly_avg, write_lock,
                   stop_event, dsRows>>

\* a _flush_buffer whose try block is inside the with block of the buffer
\* lock: the thread goes on to its INSERT with the lock held
SwapLeaveHolding(th) == SwapLeaveWith(th, th)

\* _flush_buffer: the with block of the buffer lock ends before the try.
SwapLeave(th) == SwapLeaveWith(th, "free")

\* get_fields(), on a thread with a connection of its own: the distinct
\* fields of the committed raw rows (their order is left out).
GetFields ==
    /\ UNCHANGED <<notStore, stPending>>
    /\ stCall' = [op |-> "get_fields", result |-> {r.field : r \in readings}]
    /\ UNCHANGED <<stClock, write_buffer, nRecorded, inBatches, readings,
                   hourly_avg, write_lock, stop_event, stPc, stBatch, dsRows>>

\* The store with its producer, its flush thread, the caller of stop() and
\* the callers of cleanup() and of the queries, every lock a step. The
\* INSERT of a flush, the upserts of a downsample and the DELETE of a
\* cleanup succeed here; a statement that raises leaves its with block, and
\* releases the write lock, as one that succeeds does.
LockNext ==
    \/ StoreTick
    \/ RecordEnter
    \/ RecordAppend(RecordInput(nRecorded + 1)[1], RecordInput(nRecorded + 1)[2])
    \/ StoreStart
    \/ StoreStop
    \/ FlushLoopTest
    \/ FlushWake
    \/ \E th \in StoreThreads : SwapEnter(th)
    \/ \E th \in StoreThreads : SwapLeave(th)
    \/ \E th \in StoreThreads : FlushAcquire(th)
    \/ \E th \in StoreThreads : FlushInsert(th)
    \/ DsSelect
    \/ DsAcquire
    \/ DsWrite
    \/ \E d \in LockCleanupDays : Cleanup(d)
    \/ GetHistory("x", 1, 1)
    \/ GetSummary(1)
    \/ GetFields

(***************************************************************************)
(* DataStore: properties                                                   *)
(***************************************************************************)

\* A step that is a record() call.
IsRecordStep == nRecorded' = nRecorded + 1

\* A step in which thread th swaps a non-empty buffer out.
IsSwapStep(th) == stPc[th] = "swap" /\ stPc'[th] = "lock"

\* The ids of the readings in a list of readings.
IdsIn(list) == {list[k].id : k \in 1..Len(list)}

\* Every reading recorded so far is either still in the buffer, once, and
\* in no batch, or in no buffer and in one batch.
OnceBufferedOrBatched ==
    \A id \in 1..nRecorded :
        Cardinality({k \in 1..Len(write_buffer) : write_buffer[k].id = id})
            + inBatches[id] = 1

\* C3: every reading passed to record() is in exactly one flush batch, the
\* one of the first buffer swap after its append, whichever thread swaps
\* (the flush thread or the caller of stop()) and however record() calls
\* interleave with the flushes: a recorded reading is always either in the
\* buffer or in one batch, a swap takes the whole buffer as its batch and
\* leaves the buffer empty, and record() only appends the reading to the
\* buffer, leaving both tables as they were.
C3_ExactlyOneBatch ==
    /\ []OnceBufferedOrBatched
    /\ [][\A th \in StoreThreads :
              IsSwapStep(th) =>
                  /\ stBatch'[th] = write_buffer
                  /\ write_buffer' = <<>>
                  /\ \A id \in IdsIn(write_buffer) :
                         inBatches[id] = 0 /\ inBatches'[id] = 1
                  /\ \A id \in (1..nRecorded) \ IdsIn(write_buffer) :
                         inBatches'[id] = inBatches[id]
         ]_vars
    /\ [][IsRecordStep =>
              /\ Len(write_buffer') = Len(write_buffer) + 1
              /\ SubSeq(write_buffer', 1, Len(write_buffer)) = write_buffer
              /\ write_buffer'[Len(write_buffer')].id = nRecorded'
              /\ write_buffer'[Len(write_buffer')].ts = stClock
              /\ readings' = readings
              /\ hourly_avg' = hourly_avg
              /\ stBatch' = stBatch
         ]_vars

\* C3 witness: three readings recorded around two flushes that run at the
\* same time: the flush thread and the caller of stop() each hold a batch
\* and a later reading waits in the buffer.
C3_Witness ==
    /\ nRecorded = 3
    /\ stBatch["flush"] /= <<>>
    /\ stBatch["main"] /= <<>>
    /\ write_buffer /= <<>>
    /\ \A id \in IdsIn(stBatch["flush"]) \cup IdsIn(stBatch["main"]) :
           inBatches[id] = 1

\* The sum of the values of a set of rows.
RECURSIVE SumValues(_)
SumValues(rows) ==
    IF rows = {} THEN 0
    ELSE LET r == CHOOSE x \in rows : TRUE
         IN  r.value + SumValues(rows \ {r})

\* The Buckets a step wrote: the keys that are new or whose Bucket changed.
BucketsWritten ==
    {key \in DOMAIN hourly_avg' :
        key \notin DOMAIN hourly_avg \/ hourly_avg'[key] /= hourly_avg[key]}

\* C10: every Bucket a downsample cycle writes for (hour, field) has its
\* count, mean, min and max taken over exactly the readings of that field
\* with hour*3600 <= timestamp < hour*3600 + 3600 that the table holds
\* when the cycle commits the Bucket (the rows the cycle computed over: no
\* other writer gets in between), and the hour of a written Bucket has
\* fully elapsed.
C10_BucketOverItsHour ==
    [][\A key \in BucketsWritten :
           LET hour == key[1]
               rows == {r \in readings' :
                           /\ r.field = key[2]
                           /\ r.ts >= hour * 3600
                           /\ r.ts < hour * 3600 + 3600}
               b == hourly_avg'[key]
           IN  /\ rows /= {}
               /\ b.count = Cardinality(rows)
               /\ b.avg.num = SumValues(rows)
               /\ b.avg.den = Cardinality(rows)
               /\ \E r \in rows : r.value = b.min
               /\ \A r \in rows : b.min <= r.value
               /\ \E r \in rows : r.value = b.max
               /\ \A r \in rows : b.max >= r.value
               /\ (hour + 1) * 3600 <= stClock
      ]_vars

\* C10 witness: the readings 52, 50 and 54 of field "x" and one reading of
\* field "y", all in hour 0, rolled up after the hour: the Bucket of
\* (0, "x") has count 3, mean 52, min 50 and max 54.
C10_Witness ==
    /\ <<0, "x">> \in DOMAIN hourly_avg
    /\ <<0, "y">> \in DOMAIN hourly_avg
    /\ hourly_avg[<<0, "x">>].count = 3
    /\ hourly_avg[<<0, "x">>].avg.num = 52 * hourly_avg[<<0, "x">>].avg.den
    /\ hourly_avg[<<0, "x">>].min = 50
    /\ hourly_avg[<<0, "x">>].max = 54
    /\ hourly_avg[<<0, "y">>].count = 1

\* The ids of the committed readings.
PersistedIds == {r.id : r \in readings}

\* Reading id was swapped out into a batch and is in no thread's batch, not
\* in the table and not in the buffer: its batch was dropped.
Lost(id) ==
    /\ inBatches[id] = 1
    /\ \A th \in StoreThreads : id \notin IdsIn(stBatch[th])
    /\ id \notin PersistedIds
    /\ id \notin IdsIn(write_buffer)

\* C12: the insert of a batch either commits the whole batch or, when it
\* fails, commits nothing and puts nothing back into the buffer: every
\* reading of the batch is lost. A lost reading stays lost, whatever is
\* flushed later, and the inserts of later batches are not affected: they
\* commit their own readings.
C12_FailedBatchIsLost ==
    /\ [][\A th \in StoreThreads :
              (stPc[th] = "insert" /\ stPc'[th] /= "insert") =>
                  /\ write_buffer' = write_buffer
                  /\ stBatch'[th] = <<>>
                  /\ \/ readings' = readings \cup
                            {stBatch[th][k] : k \in 1..Len(stBatch[th])}
                     \/ /\ readings' = readings
                        /\ \A id \in IdsIn(stBatch[th]) : Lost(id)'
         ]_vars
    /\ [][\A id \in 1..nRecorded : Lost(id) => Lost(id)']_vars

\* C12 witness: the batch holding the first reading was dropped by a failed
\* insert, and the third reading, recorded later, went through a later
\* flush into the table.
C12_Witness ==
    /\ nRecorded >= 3
    /\ Lost(1)
    /\ 3 \in PersistedIds
    /\ write_buffer = <<>>

\* C11: the table holds one Bucket per (hour, field), and a Bucket that
\* exists is never modified, replaced or removed by a later step: neither
\* by a downsample cycle that runs after late readings of the hour were
\* flushed, nor after cleanup() deleted the hour's raw readings.
C11_BucketWrittenOnce ==
    [][\A key \in DOMAIN hourly_avg :
           /\ key \in DOMAIN hourly_avg'
           /\ hourly_avg'[key] = hourly_avg[key]
      ]_vars

\* C11 witness: the Bucket of (0, "x") was computed from one reading; a
\* second reading of that hour was flushed afterwards and the downsample
\* that followed its flush has run and left the Bucket as it was.
C11_Witness ==
    /\ <<0, "x">> \in DOMAIN hourly_avg
    /\ hourly_avg[<<0, "x">>].count = 1
    /\ Cardinality(HourRows(readings, 0, "x")) = 2
    /\ stPc["flush"] = "loop"

\* C13: cleanup(max_days) deletes every committed reading with timestamp <
\* now - max_days * 86400 (unless its DELETE fails, which deletes nothing),
\* deletes no reading at or after that cutoff, adds none, and leaves the
\* Buckets, those computed from the deleted rows included, as they were.
C13_CleanupDeletesOldRawOnly ==
    [][stCall'.op = "cleanup" =>
           LET cutoff == stClock - stCall'.max_days * 86400 IN
           /\ stCall'.ok =>
                  \A r \in readings : r.ts < cutoff => r \notin readings'
           /\ \A r \in readings : r.ts >= cutoff => r \in readings'
           /\ readings' \subseteq readings
           /\ hourly_avg' = hourly_avg
      ]_vars

\* C13 witness: a cleanup(7) has just deleted the readings of hour 0, the
\* Bucket of (0, "x") computed from them is still there, and a younger
\* reading was kept.
C13_Witness ==
    /\ stCall.op = "cleanup"
    /\ stCall.ok
    /\ stCall.max_days = RetentionDays
    /\ stCall.rowcount > 0
    /\ <<0, "x">> \in DOMAIN hourly_avg
    /\ HourRows(readings, 0, "x") = {}
    /\ readings /= {}

\* The committed reading with this id is older than the retention window.
OlderThanRetention(id) ==
    \E r \in readings :
        r.id = id /\ r.ts < stClock - RetentionDays * DaySeconds

\* C14: while the store runs, a committed reading that has become older
\* than the retention window of 7 days is eventually no longer in the
\* table, and no step removes a Bucket.
C14_OldRawEventuallyDeleted ==
    /\ \A id \in 1..MaxDayRecords :
           [](OlderThanRetention(id) => <>(id \notin PersistedIds))
    /\ [][DOMAIN hourly_avg \subseteq DOMAIN hourly_avg']_vars

(***************************************************************************)
(* DataStore: properties of the queries                                    *)
(***************************************************************************)

\* The readings recorded and not dropped, wherever they are: in the buffer,
\* in a batch, in an open transaction or in the table.
RecordedRows ==
    readings \cup RowsIn(write_buffer)
        \cup UNION {RowsIn(stBatch[th]) : th \in StoreThreads}
        \cup UNION {stPending[th] : th \in StoreThreads}

\* C15: get_history returns at most max_points points (none for a
\* max_points below 1), in strictly ascending order of t, whichever
\* resolution it answers with.
C15_BoundedAscending ==
    [][stCall'.op = "get_history" =>
           LET res == stCall'.result IN
           /\ Len(res) <= Max2(0, stCall'.max_points)
           /\ \A i \in 1..(Len(res) - 1) : res[i].t < res[i + 1].t
      ]_vars

\* The points of the window of a get_history call at time now: what the
\* query returns under a LIMIT no smaller than the number of rows.
WindowPoints(table, buckets, now, field, hours) ==
    History(table, buckets, now, field, hours,
            Cardinality(table) + Cardinality(DOMAIN buckets))

\* A get_history call whose window holds points, more than max_points of
\* them, returned the first max_points of them, and no point left out is
\* earlier than a point returned.
KeepsEarliest(call, window) ==
    (window /= <<>> /\ Len(window) > call.max_points) =>
        /\ Len(call.result) = call.max_points
        /\ \A k \in 1..Len(call.result) : call.result[k] = window[k]
        /\ \A k \in 1..Len(call.result) :
               \A j \in (Len(call.result) + 1)..Len(window) :
                   call.result[k].t <= window[j].t

\* C38: when the window of a get_history call holds more than max_points
\* points, the call returns the max_points earliest points of the window,
\* in ascending order, and leaves out the most recent ones.
C38_EarliestKept ==
    [][stCall'.op = "get_history" =>
           KeepsEarliest(stCall', WindowPoints(readings, hourly_avg, stClock,
                                               stCall'.field, stCall'.hours))
      ]_vars

\* The same for the calls with max_points >= 0.
EarliestKeptFromZero ==
    [][(stCall'.op = "get_history" /\ stCall'.max_points >= 0) =>
           KeepsEarliest(stCall', WindowPoints(readings, hourly_avg, stClock,
                                               stCall'.field, stCall'.hours))
      ]_vars

\* C17: get_history(field, hours <= 1, max_points) returns min(N,
\* C17: get_history(field, hours <= 1, max_points) returns min(N,
\* max_points) points (none for a max_points below 1), N being the number
\* of readings of the field recorded with now - hours*3600 <= timestamp
\* <= now.
C17_RawCountIsRecordedCount ==
    [][(stCall'.op = "get_history" /\ stCall'.hours <= 1) =>
           LET n == Cardinality({r \in RecordedRows :
                        /\ r.field = stCall'.field
                        /\ r.ts >= stClock - stCall'.hours * 3600
                        /\ r.ts <= stClock})
           IN  Len(stCall'.result) = Min2(n, Max2(0, stCall'.max_points))
      ]_vars

\* The value of the reading of a field recorded last.
LastRecorded(f) ==
    LET rows == {r \in RecordedRows : r.field = f}
    IN  (CHOOSE r \in rows : \A o \in rows : o.id <= r.id).value

\* C18: get_summary reports, for each field, count, avg, min and max over
\* the committed readings of the window, and as `current` the value of the
\* field recorded last, a value still waiting in the write buffer included.
C18_SummaryCurrentIsLastRecorded ==
    [][stCall'.op = "get_summary" =>
           \A f \in DOMAIN stCall'.result :
               LET e == stCall'.result[f]
                   rows == {r \in readings :
                               /\ r.field = f
                               /\ r.ts >= stClock - stCall'.hours * 3600}
               IN  /\ e.count = Cardinality(rows)
                   /\ e.avg = Hundredths(Round2(SumValues(rows), Cardinality(rows)))
                   /\ \A r \in rows : e.min.num <= 100 * r.value
                   /\ \A r \in rows : e.max.num >= 100 * r.value
                   /\ e.current = Hundredths(100 * LastRecorded(f))
      ]_vars

\* The point is what a bucketed resolution returns for these rows: mean
\* (to the nearest hundredth), min and max.
PointOver(p, rows) ==
    /\ DOMAIN p = {"t", "v", "min", "max"}
    /\ rows /= {}
    /\ p.v.den = 100
    /\ 2 * (100 * SumValues(rows) - p.v.num * Cardinality(rows))
           <= Cardinality(rows)
    /\ 2 * (p.v.num * Cardinality(rows) - 100 * SumValues(rows))
           <= Cardinality(rows)
    /\ \E r \in rows : p.min = [num |-> 100 * r.value, den |-> 100]
    /\ \A r \in rows : p.min.num <= 100 * r.value
    /\ \E r \in rows : p.max = [num |-> 100 * r.value, den |-> 100]
    /\ \A r \in rows : p.max.num >= 100 * r.value

\* The result of a get_history step is raw readings of the field, {t, v}
\* only, when hours <= 1, and Buckets of the hourly table when hours > 24.
RawOrHourly(c) ==
    /\ c.hours <= 1 =>
           \A k \in 1..Len(c.result) :
               /\ DOMAIN c.result[k] = {"t", "v"}
               /\ \E r \in readings :
                      /\ r.field = c.field
                      /\ r.ts = c.result[k].t
                      /\ r.value = c.result[k].v
    /\ c.hours > 24 =>
           \A k \in 1..Len(c.result) :
               \E key \in DOMAIN hourly_avg :
                   /\ key[2] = c.field
                   /\ c.result[k].t = key[1] * 3600 + 1800
                   /\ DOMAIN c.result[k] = {"t", "v", "min", "max"}
                   /\ c.result[k].v =
                          Hundredths(Round2(hourly_avg[key].avg.num,
                                            hourly_avg[key].avg.den))
                   /\ c.result[k].min.num = 100 * hourly_avg[key].min
                   /\ c.result[k].max.num = 100 * hourly_avg[key].max

FlushExecuting(th) == stPc[th] = "insert"

\* _maybe_downsample() has run its outer SELECT and has rows to aggregate:
\* it waits for the write lock or is inside it.
DownsampleInProgress == stPc["flush"] \in {"dsLock", "dsWrite"}

\* A step in which the flush thread enters _maybe_downsample().
IsDownsampleStart == stPc["flush"] /= "select" /\ stPc'["flush"] = "select"

\* C28: flush and downsample are strictly sequential: the flush thread
\* enters the downsample only as its own flush of the same cycle returns,
\* and no thread, the caller of stop() included, is executing the INSERT of
\* a flush while the downsample is in progress.
C28_FlushDownsampleSequential ==
    /\ [][IsDownsampleStart => stPc["flush"] \in {"swap", "insert"}]_vars
    /\ [](DownsampleInProgress => \A th \in StoreThreads : ~FlushExecuting(th))

\* Thread th is executing a statement on the database, or is about to: the
\* INSERT of a flush, the outer SELECT of a downsample or its upserts.
StatementExecuting(th) == stPc[th] \in {"insert", "select", "dsWrite"}

\* A step that is a whole cleanup() or query call.
IsCallStep == stCall'.op /= "none"

\* C29 as stated: the buffer lock is held by no thread at all while a
\* database statement is executing.
C29_BufferLockFreeDuringStatements ==
    (\E th \in StoreThreads : StatementExecuting(th)) => buffer_lock = "free"

\* C29: record() never blocks on I/O: a thread that holds the buffer lock is
\* inside the in-memory swap of _flush_buffer() or inside the append of
\* record() and executes no database statement until it has released the
\* lock, and a cleanup() or a query neither waits for the buffer lock nor
\* changes it; the lock may be held by one thread while a statement of
\* another thread is executing.
C29_HolderExecutesNoStatement ==
    /\ [](\A th \in StoreThreads :
              /\ buffer_lock = th <=> stPc[th] = "held"
              /\ buffer_lock = th => ~StatementExecuting(th))
    /\ [](buffer_lock = "producer" <=> recPc = "append")
    /\ [][/\ IsCallStep => buffer_lock' = buffer_lock
          /\ \A th \in StoreThreads :
                 StatementExecuting(th) /\ stPc'[th] /= stPc[th]
                     => buffer_lock /= th /\ buffer_lock' = buffer_lock
         ]_vars

\* The caller of stop() holds the buffer lock for its swap while the flush
\* thread is at its INSERT.
C29_Witness ==
    /\ buffer_lock = "main"
    /\ write_buffer /= <<>>
    /\ stPc["flush"] = "insert"

\* Thread th is at a statement that writes: the INSERT of its flush or the
\* upserts of its downsample.
Writing(th) == stPc[th] \in {"insert", "dsWrite"}

\* A step that is a whole cleanup() call, and one that is a query call.
IsCleanupStep == stCall'.op = "cleanup"
IsQueryStep == stCall'.op \in {"get_history", "get_summary", "get_fields"}

\* C30: the store has one writer at a time: a thread is at the INSERT of a
\* flush or at the upserts of a downsample exactly while it holds the write
\* lock, so at most one thread is, and a cleanup() runs its DELETE only
\* while no thread is; get_history, get_summary and get_fields can run
\* while the write lock and the buffer lock are both held, whoever holds
\* them, and leave both locks as they are.
C30_OneWriterAtATime ==
    /\ [](\A th \in StoreThreads : Writing(th) <=> write_lock = th)
    /\ [](Cardinality({th \in StoreThreads : Writing(th)}) <= 1)
    /\ [][IsCleanupStep =>
              /\ write_lock = "free"
              /\ \A th \in StoreThreads : ~Writing(th)]_vars
    /\ [](write_lock /= "free" /\ buffer_lock /= "free" =>
              /\ ENABLED GetHistory("x", 1, 1)
              /\ ENABLED GetSummary(1)
              /\ ENABLED GetFields)
    /\ [][IsQueryStep =>
              write_lock' = write_lock /\ buffer_lock' = buffer_lock]_vars

\* A get_history() has returned while the downsample holds the write lock
\* and the caller of stop() holds the buffer lock.
C30_Witness ==
    /\ stCall.op = "get_history"
    /\ write_lock = "flush"
    /\ stPc["flush"] = "dsWrite"
    /\ buffer_lock = "main"

\* The store with its threads, with a host that calls start() and stop()
\* one after the other, and with producers that record nothing while a
\* stop() is in progress: when a stop() returns, every reading there is was
\* recorded before that stop() was called.
StopNext ==
    \/ StoreTick
    \/ /\ nRecorded < MaxRecords
       /\ stPc["main"] = "idle"
       /\ StoreRecord(RecordInput(nRecorded + 1)[1], RecordInput(nRecorded + 1)[2])
    \/ /\ stPc["main"] = "idle"
       /\ StoreStart
    \/ StoreStop
    \/ FlushLoopTest
    \/ FlushWake
    \/ \E th \in StoreThreads : FlushSwap(th)
    \/ \E th \in StoreThreads : FlushAcquire(th)
    \/ \E th \in StoreThreads : FlushInsert(th)
    \/ \E th \in StoreThreads : FlushInsertFail(th)
    \/ DsSelect
    \/ DsAcquire
    \/ DsWrite
    \/ DsWriteLocked

\* A step in which stop() returns: the _flush_buffer() of its caller ends.
IsStopReturn == stPc["main"] /= "idle" /\ stPc'["main"] = "idle"

\* C32: when stop() returns, every reading recorded before it was called is
\* in the table, unless a failed write dropped its batch; and once the stop
\* event is set the flush thread starts no cycle after the one it is in or
\* is waiting to start: its next test of the event ends the loop.
C32_StopPersistsAndEnds ==
    /\ [][IsStopReturn =>
              \A id \in 1..nRecorded : id \in PersistedIds' \/ Lost(id)']_vars
    /\ [][(stop_event /\ stPc["flush"] = "loop" /\ stPc'["flush"] /= "loop") =>
              stPc'["flush"] = "done"]_vars

\* Bound of the model: the record() calls made on top of the backlog.
MaxBacklogRecords == 1

\* The smallest backlog that one cycle cannot clear: one (hour, field)
\* pair more than the LIMIT of the outer SELECT.
BacklogPairs == DownsampleLimit + 1

\* The reading of the k-th hour of the backlog.
BacklogRow(k) ==
    [id |-> k, ts |-> (k - 1) * HourSeconds, field |-> "x", value |-> 50]

\* A store that holds one committed reading for each of BacklogPairs hours,
\* all of them over, and no Bucket: its readings were flushed by stop()
\* calls, which do not downsample.
BacklogStore ==
    /\ stClock = BacklogPairs * HourSeconds
    /\ write_buffer = <<>>
    /\ nRecorded = BacklogPairs
    /\ inBatches = [id \in 1..BacklogPairs |-> 1]
    /\ readings = {BacklogRow(k) : k \in 1..BacklogPairs}
    /\ hourly_avg = EmptyDict
    /\ write_lock = "free"
    /\ stop_event = TRUE
    /\ stPc = [th \in StoreThreads |-> IF th = "flush" THEN "off" ELSE "idle"]
    /\ stBatch = [th \in StoreThreads |-> <<>>]
    /\ dsRows = {}
    /\ stPending = [th \in StoreThreads |-> {}]
    /\ stCall = NoCall
    /\ buffer_lock = "free"
    /\ recPc = "idle"

\* The store started on the backlog: producers record, the flush thread
\* cycles, and its INSERT may fail.
BacklogNext ==
    \/ /\ nRecorded < BacklogPairs + MaxBacklogRecords
       /\ StoreRecord(RecordInput(nRecorded + 1)[1], RecordInput(nRecorded + 1)[2])
    \/ FlushThreadNext
    \/ FlushInsertFail("flush")

\* The (hour, field) pairs with committed readings whose hour is over and
\* that have no Bucket.
Missing == DownsampleCandidates(readings, hourly_avg, stClock)

\* C33: the outer SELECT of a cycle returns at most 100 (hour, field) pairs
\* and the cycle writes Buckets for these pairs only; and while the flush
\* thread keeps cycling, the pairs with committed readings whose hour is
\* over all come to have a Bucket.
C33_DownsampleProgress ==
    /\ [](Cardinality(dsRows) <= DownsampleLimit)
    /\ [][/\ DOMAIN hourly_avg' \ DOMAIN hourly_avg \subseteq dsRows
          /\ Cardinality(DOMAIN hourly_avg' \ DOMAIN hourly_avg)
                 <= DownsampleLimit]_vars
    /\ [](Missing /= {} => <>(Missing = {}))

\* C33 witness: the first cycle has written 100 Buckets and left one pair
\* of the backlog for the next cycle.
C33_Witness ==
    /\ Cardinality(DOMAIN hourly_avg) = DownsampleLimit
    /\ Cardinality(Missing) = BacklogPairs - DownsampleLimit
    /\ stPc["flush"] = "loop"

(***************************************************************************)
(* AlertManager                                                            *)
(***************************************************************************)

\* Bound of the model: the clock values the alert manager is run over.
MaxClock == 5

\* The rule set the manager was loaded with (the parsed rules of
\* _parse_rule). Ids are unique; "hot" and "cold" watch the same field.
Rules ==
    << [id |-> "hot",   field |-> "cpu_temp", op |-> ">",  threshold |-> 70,
        level |-> "critical", message |-> "hot {value}",   cooldown |-> 2],
       [id |-> "cold",  field |-> "cpu_temp", op |-> "<",  threshold |-> 65,
        level |-> "info",     message |-> "cold {value}",  cooldown |-> 3],
       [id |-> "humid", field |-> "humidity", op |-> ">=", threshold |-> 75,
        level |-> "warn",     message |-> "humid {value}", cooldown |-> 0] >>

RuleIds == {Rules[i].id : i \in 1..Len(Rules)}

RuleOf(id) == CHOOSE r \in {Rules[i] : i \in 1..Len(Rules)} : r.id = id

\* The observations check() is called with: field -> values.
CheckFields == {"cpu_temp", "humidity", "pressure"}

CheckValues(field) ==
    CASE field = "cpu_temp" -> {60, 75, 80}
      [] field = "humidity" -> {60, 75}
      [] OTHER -> {75}

\* OPS: the operator table of the condition strings.
OPS(op, value, threshold) ==
    CASE op = ">"  -> value > threshold
      [] op = "<"  -> value < threshold
      [] op = ">=" -> value >= threshold
      [] op = "<=" -> value <= threshold
      [] op = "==" -> value = threshold

\* cooldown expressed with > instead of >=
CanTriggerStrict(rule, cds, now) ==
    LET last_triggered == IF rule.id \in DOMAIN cds THEN cds[rule.id] ELSE 0
    IN  (now - last_triggered) > rule.cooldown

\* cooldown never consulted
CanTriggerAlways(rule, cds, now) == TRUE

\* _can_trigger: _cooldowns.get(id, 0), then now - last >= cooldown.
CanTrigger(rule, cds, now) ==
    LET last_triggered == IF rule.id \in DOMAIN cds THEN cds[rule.id] ELSE 0
    IN  (now - last_triggered) >= rule.cooldown

\* message.format(value=value, field=field): the template with its arguments.
FormatMessage(template, value, field) ==
    [template |-> template, value |-> value, field |-> field]

\* The alert dict check() builds for a triggered rule.
MakeAlert(rule, field, value, now) ==
    [id |-> rule.id, level |-> rule.level, field |-> field, value |-> value,
     message |-> FormatMessage(rule.message, value, field), timestamp |-> now]

\* a false condition that does not clear the active alert
CheckRuleNoClear(rule, field, value, now, st) ==
    IF rule.field /= field THEN st
    ELSE LET is_triggered == OPS(rule.op, value, rule.threshold)
             alert == MakeAlert(rule, field, value, now)
         IN  IF is_triggered /\ CanTrigger(rule, st.cooldowns, now)
             THEN [cooldowns |-> DictSet(st.cooldowns, rule.id, now),
                   active    |-> DictSet(st.active, rule.id, alert),
                   triggered |-> Append(st.triggered, alert)]
             ELSE st

\* a clearing that is also reported in the returned list
CheckRuleClearEmits(rule, field, value, now, st) ==
    IF rule.field /= field THEN st
    ELSE LET is_triggered == OPS(rule.op, value, rule.threshold)
             alert == MakeAlert(rule, field, value, now)
         IN  IF is_triggered /\ CanTrigger(rule, st.cooldowns, now)
             THEN [cooldowns |-> DictSet(st.cooldowns, rule.id, now),
                   active    |-> DictSet(st.active, rule.id, alert),
                   triggered |-> Append(st.triggered, alert)]
             ELSE IF ~is_triggered /\ rule.id \in DOMAIN st.active
             THEN [st EXCEPT !.active = DictDel(st.active, rule.id),
                             !.triggered = Append(st.triggered, alert)]
             ELSE st

\* a suppressed condition-true check that still refreshes the active alert
CheckRuleRefresh(rule, field, value, now, st) ==
    IF rule.field /= field THEN st
    ELSE LET is_triggered == OPS(rule.op, value, rule.threshold)
             alert == MakeAlert(rule, field, value, now)
         IN  IF is_triggered /\ CanTrigger(rule, st.cooldowns, now)
             THEN [cooldowns |-> DictSet(st.cooldowns, rule.id, now),
                   active    |-> DictSet(st.active, rule.id, alert),
                   triggered |-> Append(st.triggered, alert)]
             ELSE IF is_triggered /\ rule.id \in DOMAIN st.active
             THEN [st EXCEPT !.active = DictSet(st.active, rule.id, alert)]
             ELSE IF ~is_triggered /\ rule.id \in DOMAIN st.active
             THEN [st EXCEPT !.active = DictDel(st.active, rule.id)]
             ELSE st

\* a rule that is notified once for as long as its alert stays active
CheckRuleOnce(rule, field, value, now, st) ==
    IF rule.field /= field THEN st
    ELSE LET is_triggered == OPS(rule.op, value, rule.threshold)
             alert == MakeAlert(rule, field, value, now)
         IN  IF /\ is_triggered
                /\ CanTrigger(rule, st.cooldowns, now)
                /\ rule.id \notin DOMAIN st.active
             THEN [cooldowns |-> DictSet(st.cooldowns, rule.id, now),
                   active    |-> DictSet(st.active, rule.id, alert),
                   triggered |-> Append(st.triggered, alert)]
             ELSE IF ~is_triggered /\ rule.id \in DOMAIN st.active
             THEN [st EXCEPT !.active = DictDel(st.active, rule.id)]
             ELSE st

\* One iteration of check()'s loop over self._rules, on the state
\* st = [cooldowns, active, triggered].
CheckRule(rule, field, value, now, st) ==
    IF rule.field /= field THEN st
    ELSE LET is_triggered == OPS(rule.op, value, rule.threshold)
             alert == MakeAlert(rule, field, value, now)
         IN  IF is_triggered /\ CanTrigger(rule, st.cooldowns, now)
             THEN [cooldowns |-> DictSet(st.cooldowns, rule.id, now),
                   active    |-> DictSet(st.active, rule.id, alert),
                   triggered |-> Append(st.triggered, alert)]
             ELSE IF ~is_triggered /\ rule.id \in DOMAIN st.active
             THEN [st EXCEPT !.active = DictDel(st.active, rule.id)]
             ELSE st

\* check()'s loop from rule i on.
RECURSIVE CheckFrom(_, _, _, _, _)
CheckFrom(i, field, value, now, st) ==
    IF i > Len(Rules) THEN st
    ELSE CheckFrom(i + 1, field, value, now,
                   CheckRule(Rules[i], field, value, now, st))

\* Whether a returned list holds an alert of rule id.
Emitted(id, alerts) == \E k \in 1..Len(alerts) : alerts[k].id = id

NoCheck == [field |-> "", value |-> 0]

\* AlertManager.__init__: no rule has triggered, no alert is active.
AlertInit ==
    /\ alClock = 0
    /\ cooldowns = EmptyDict
    /\ active = EmptyDict
    /\ lastCheck = NoCheck
    /\ triggered = <<>>
    /\ prevTrigger = EmptyDict
    /\ alConfig = <<>>
    /\ alManager = "unwired"
    /\ alRules = <<>>
    /\ alEvaluated = {}

\* check(field, value) at the current clock.
Check(field, value) ==
    LET st == CheckFrom(1, field, value, alClock,
                        [cooldowns |-> cooldowns, active |-> active,
                         triggered |-> <<>>])
    IN  /\ cooldowns' = st.cooldowns
        /\ active' = st.active
        /\ triggered' = st.triggered
        /\ lastCheck' = [field |-> field, value |-> value]
        /\ prevTrigger' =
               [id \in (DOMAIN prevTrigger) \cup
                        {a \in DOMAIN cooldowns : Emitted(a, st.triggered)} |->
                   IF Emitted(id, st.triggered) /\ id \in DOMAIN cooldowns
                   THEN cooldowns[id] ELSE prevTrigger[id]]
        /\ UNCHANGED <<alClock, loadVars>>
        /\ UNCHANGED notAlert

\* Time passes between two calls.
AlertTick ==
    /\ alClock < MaxClock
    /\ alClock' = alClock + 1
    /\ UNCHANGED <<cooldowns, active, lastCheck, triggered, prevTrigger,
                   loadVars>>
    /\ UNCHANGED notAlert

\* get_active_alerts(): the values of _active.
GetActiveAlerts == {active[id] : id \in DOMAIN active}

AlertNext ==
    \/ \E field \in CheckFields : \E value \in CheckValues(field) :
           Check(field, value)
    \/ AlertTick

(***************************************************************************)
(* AlertManager: loading the rules of the configuration                    *)
(***************************************************************************)

\* A condition string is the tuple of its characters.
IsSpace(ch) == ch \in {" ", "\t", "\n"}

DigitChars == <<"0", "1", "2", "3", "4", "5", "6", "7", "8", "9">>

IsDigit(ch) == \E i \in 1..10 : DigitChars[i] = ch

DigitValue(ch) == (CHOOSE i \in 1..10 : DigitChars[i] = ch) - 1

\* \s* and \d* from position i: the position after the run.
RECURSIVE SkipSpace(_, _)
SkipSpace(str, i) ==
    IF i <= Len(str) /\ IsSpace(str[i]) THEN SkipSpace(str, i + 1) ELSE i

RECURSIVE SkipDigits(_, _)
SkipDigits(str, i) ==
    IF i <= Len(str) /\ IsDigit(str[i]) THEN SkipDigits(str, i + 1) ELSE i

\* (>=|<=|>|<|==), in the order of the alternation.
OpTexts == << <<">", "=">>, <<"<", "=">>, <<">">>, <<"<">>, <<"=", "=">> >>
OpNames == <<">=", "<=", ">", "<", "==">>

\* The first alternative that matches at position i (0 for none). An
\* alternative tried after it would leave "=" to the rest of the pattern,
\* which cannot match it, so the first one decides.
OpAt(str, i) ==
    LET fits(k) == /\ i + Len(OpTexts[k]) - 1 <= Len(str)
                   /\ SubSeq(str, i, i + Len(OpTexts[k]) - 1) = OpTexts[k]
    IN  IF \E k \in 1..5 : fits(k)
        THEN CHOOSE k \in 1..5 : fits(k) /\ \A j \in 1..(k - 1) : ~fits(j)
        ELSE 0

\* CONDITION_RE.match(condition_str):
\* ^\s*(>=|<=|>|<|==)\s*(-?\d+(?:\.\d+)?)\s*$
ConditionMatch(str) ==
    LET a == SkipSpace(str, 1)
        k == OpAt(str, a)
        b == SkipSpace(str, a + (IF k = 0 THEN 0 ELSE Len(OpTexts[k])))
        c == IF b <= Len(str) /\ str[b] = "-" THEN b + 1 ELSE b
        d == SkipDigits(str, c)
        e == IF d + 1 <= Len(str) /\ str[d] = "." /\ IsDigit(str[d + 1])
             THEN SkipDigits(str, d + 1) ELSE d
        f == SkipSpace(str, e)
    IN  IF k = 0 \/ d = c \/ f <= Len(str)
        THEN [ok |-> FALSE]
        ELSE [ok |-> TRUE, op |-> OpNames[k], threshold |-> SubSeq(str, b, e - 1)]

\* The digits of a tuple read as a decimal number.
RECURSIVE DecimalOf(_)
DecimalOf(digits) ==
    IF digits = <<>> THEN 0
    ELSE 10 * DecimalOf(SubSeq(digits, 1, Len(digits) - 1))
             + DigitValue(digits[Len(digits)])

\* float(threshold_str) of a matched threshold whose fraction, if it has
\* one, is zero, as in the configurations of the model.
FloatOf(text) ==
    LET neg == text[1] = "-"
        body == IF neg THEN Tail(text) ELSE text
        whole == SubSeq(body, 1, SkipDigits(body, 1) - 1)
    IN  IF neg THEN -DecimalOf(whole) ELSE DecimalOf(whole)

\* rule.get(key, default)
RawGet(rule, key, default) == IF key \in DOMAIN rule THEN rule[key] ELSE default

\* A condition of the configuration: a string, or a number when the YAML
\* value is written without an operator and without quotes.
StrCond(text) == [type |-> "str", text |-> text]
IntCond(value) == [type |-> "int", value |-> value]

\* not condition_str
CondFalsy(cond) ==
    \/ cond.type = "str" /\ cond.text = <<>>
    \/ cond.type = "int" /\ cond.value = 0

\* rule.get('cooldown', 300)
DefaultCooldown == 300

\* _parse_rule(rule) of the rule at position pos: None (<<>>) for a rule
\* it skips, the parsed rule otherwise; CONDITION_RE.match raises
\* TypeError when the condition is not a string.
ParseRule(rule, pos) ==
    LET alert_id == RawGet(rule, "id", "")
        field == RawGet(rule, "field", "")
        condition_str == RawGet(rule, "condition", StrCond(<<>>))
    IN  IF alert_id = "" \/ field = "" \/ CondFalsy(condition_str)
        THEN [raised |-> FALSE, parsed |-> <<>>]
        ELSE IF condition_str.type /= "str"
        THEN [raised |-> TRUE, parsed |-> <<>>]
        ELSE LET match == ConditionMatch(condition_str.text)
             IN  IF ~match.ok
                 THEN [raised |-> FALSE, parsed |-> <<>>]
                 ELSE [raised |-> FALSE,
                       parsed |-> << [id |-> alert_id, field |-> field,
                                      op |-> match.op,
                                      threshold |-> FloatOf(match.threshold),
                                      level |-> RawGet(rule, "level", "info"),
                                      message |-> RawGet(rule, "message",
                                                         <<field, " alert: {value}">>),
                                      cooldown |-> RawGet(rule, "cooldown",
                                                          DefaultCooldown),
                                      pos |-> pos] >>]

\* AlertManager.__init__: the loop over the rules from position i on, an
\* exception of _parse_rule leaving the constructor.
RECURSIVE LoadFrom(_, _, _)
LoadFrom(config, i, rules) ==
    IF i > Len(config) THEN [raised |-> FALSE, rules |-> rules]
    ELSE LET p == ParseRule(config[i], i)
         IN  IF p.raised THEN [raised |-> TRUE, rules |-> <<>>]
             ELSE LoadFrom(config, i + 1, rules \o p.parsed)

\* The rules a configuration may list: two that are well formed, and
\* malformed ones: without id, without field, without condition, with a
\* condition that has no operator, a wrong operator or no number, and with
\* a number for its condition.
RulePool ==
    { [id |-> "hot", field |-> "cpu_temp",
       condition |-> StrCond(<<">", " ", "7", "0">>), cooldown |-> 2],
      [id |-> "humid", field |-> "humidity",
       condition |-> StrCond(<<" ", ">", "=", "7", "5", ".", "0">>),
       level |-> "warn", message |-> "humid {value}", cooldown |-> 0],
      [field |-> "cpu_temp", condition |-> StrCond(<<">", " ", "7", "0">>)],
      [id |-> "nofield", condition |-> StrCond(<<">", " ", "7", "0">>)],
      [id |-> "nocond", field |-> "cpu_temp"],
      [id |-> "noop", field |-> "cpu_temp", condition |-> StrCond(<<"7", "0">>)],
      [id |-> "badop", field |-> "cpu_temp",
       condition |-> StrCond(<<"=", ">", " ", "7", "0">>)],
      [id |-> "nonum", field |-> "cpu_temp",
       condition |-> StrCond(<<">", " ", "h", "o", "t">>)],
      [id |-> "zero", field |-> "cpu_temp", condition |-> IntCond(0)],
      [id |-> "bare", field |-> "cpu_temp", condition |-> IntCond(70)] }

\* Rules per configuration.
MaxConfigLen == 2

LoadConfigs ==
    UNION { [1..n -> RulePool] : n \in 0..MaxConfigLen }

\* _wire_data_store, lines 412-418: with a non-empty rule list an
\* AlertManager is built, and an exception of the constructor is passed
\* over, which leaves alert_manager None.
WireAlerts ==
    /\ UNCHANGED notAlert
    /\ alManager = "unwired"
    /\ LET loaded == LoadFrom(alConfig, 1, <<>>)
       IN  IF alConfig /= <<>> /\ ~loaded.raised
           THEN /\ alManager' = "loaded"
                /\ alRules' = loaded.rules
           ELSE /\ alManager' = "none"
                /\ UNCHANGED alRules
    /\ UNCHANGED <<alClock, cooldowns, active, lastCheck, triggered,
                   prevTrigger, alConfig, alEvaluated>>

\* check()'s loop over the given rules from rule i on.
RECURSIVE CheckOver(_, _, _, _, _, _)
CheckOver(rules, i, field, value, now, st) ==
    IF i > Len(rules) THEN st
    ELSE CheckOver(rules, i + 1, field, value, now,
                   CheckRule(rules[i], field, value, now, st))

\* alert_manager.check(field, value) of the manager the wiring built.
WiredCheck(field, value) ==
    /\ UNCHANGED notAlert
    /\ alManager = "loaded"
    /\ LET st == CheckOver(alRules, 1, field, value, alClock,
                           [cooldowns |-> cooldowns, active |-> active,
                            triggered |-> <<>>])
       IN  /\ cooldowns' = st.cooldowns
           /\ active' = st.active
           /\ triggered' = st.triggered
    /\ lastCheck' = [field |-> field, value |-> value]
    /\ alEvaluated' = alEvaluated \cup
           {alRules[i].pos : i \in {j \in 1..Len(alRules) : alRules[j].field = field}}
    /\ UNCHANGED <<alClock, prevTrigger, alConfig, alManager, alRules>>

\* The host loads its configuration, and values are checked as time passes.
LoadNext ==
    \/ WireAlerts
    \/ \E field \in CheckFields : \E value \in CheckValues(field) :
           WiredCheck(field, value)
    \/ AlertTick

\* A rule with id, field and condition whose condition is a string of the
\* form <operator> <number>.
WellFormed(rule) ==
    /\ RawGet(rule, "id", "") /= ""
    /\ RawGet(rule, "field", "") /= ""
    /\ "condition" \in DOMAIN rule
    /\ rule.condition.type = "str"
    /\ ConditionMatch(rule.condition.text).ok

\* The positions in the configuration of the rules the manager holds.
LoadedPositions == {alRules[i].pos : i \in 1..Len(alRules)}

\* C26: once the configuration is loaded, no malformed rule of it is held
\* by the manager or has been evaluated by a check(), and every well-formed
\* rule of it is held by the manager, whatever malformed rules are listed
\* with it, and is evaluated by every check() of its field.
C26_MalformedSkippedOthersLoaded ==
    alManager /= "unwired" =>
        \A i \in 1..Len(alConfig) :
            IF WellFormed(alConfig[i])
            THEN /\ i \in LoadedPositions
                 /\ lastCheck.field = alConfig[i].field => i \in alEvaluated
            ELSE i \notin LoadedPositions /\ i \notin alEvaluated

(***************************************************************************)
(* AlertManager: properties                                                *)
(***************************************************************************)

\* A step of check(): the clock stands still and the manager's state or
\* its last call changes. The call is lastCheck', made at time alClock.
IsCheckStep ==
    /\ alClock' = alClock
    /\ <<cooldowns, active, lastCheck, triggered>>' /=
           <<cooldowns, active, lastCheck, triggered>>

\* The entry of a dict under a key, absence included.
Entry(d, k) == IF k \in DOMAIN d THEN <<d[k]>> ELSE <<>>

\* Whether rule r's condition is true of the call's value.
CondTrue(r, call) == OPS(r.op, call.value, r.threshold)

\* The indices of the rules satisfying P, in rule order.
RECURSIVE RulesWhere(_, _)
RulesWhere(P(_), i) ==
    IF i > Len(Rules) THEN <<>>
    ELSE (IF P(Rules[i]) THEN <<Rules[i]>> ELSE <<>>) \o RulesWhere(P, i + 1)

C5_ActiveIffLastCheckTrue ==
    [][\A i \in 1..Len(Rules) :
          LET r == Rules[i] IN
          r.id \in DOMAIN cooldowns =>
              IF IsCheckStep /\ r.field = lastCheck'.field
              THEN r.id \in DOMAIN active' <=> CondTrue(r, lastCheck')
              ELSE Entry(active', r.id) = Entry(active, r.id)
      ]_vars

\* C5 amended: a rule is active only if the most recent check of its field
\* evaluated its condition true; a condition-true check makes or keeps it
\* active exactly when the rule was already active or the check triggered
\* it (cooldown elapsed), a condition-false check leaves it inactive, and
\* no other step changes its ActiveAlert.
C5_ActiveSinceTrigger ==
    [][\A i \in 1..Len(Rules) :
          LET r == Rules[i] IN
          IF IsCheckStep /\ r.field = lastCheck'.field
          THEN r.id \in DOMAIN active' <=>
                   /\ CondTrue(r, lastCheck')
                   /\ \/ r.id \in DOMAIN active
                      \/ Emitted(r.id, triggered')
          ELSE Entry(active', r.id) = Entry(active, r.id)
      ]_vars

\* C5 witness: the last check of cpu_temp evaluated "hot" true inside the
\* cooldown window that follows a clearing, and "hot" is not active.
C5_Witness ==
    /\ lastCheck = [field |-> "cpu_temp", value |-> 75]
    /\ "hot" \in DOMAIN cooldowns
    /\ "hot" \notin DOMAIN active
    /\ alClock - cooldowns["hot"] < RuleOf("hot").cooldown

\* C6: two successive alerts of one rule are at least `cooldown` apart (the
\* last trigger time is the timestamp of the rule's last alert), and a
\* check that emits no alert for a rule, suppressed or clearing, leaves
\* the rule's last-trigger timestamp as it was.
C6_CooldownFromLastTrigger ==
    /\ [](\A id \in DOMAIN prevTrigger :
              cooldowns[id] - prevTrigger[id] >= RuleOf(id).cooldown)
    /\ [][IsCheckStep =>
            \A i \in 1..Len(Rules) :
                LET id == Rules[i].id IN
                IF Emitted(id, triggered')
                THEN \E k \in 1..Len(triggered') :
                         /\ triggered'[k].id = id
                         /\ Entry(cooldowns', id) = <<triggered'[k].timestamp>>
                ELSE Entry(cooldowns', id) = Entry(cooldowns, id)
        ]_vars

\* C6 witness: "hot" has emitted two alerts, and a later check of its field
\* that emitted none left its last trigger in the past.
C6_Witness ==
    /\ "hot" \in DOMAIN prevTrigger
    /\ lastCheck.field = "cpu_temp"
    /\ ~Emitted("hot", triggered)
    /\ cooldowns["hot"] < alClock

\* C7: a check whose condition is true for a rule inside its cooldown
\* window (less than `cooldown` since its last trigger) returns no alert
\* for the rule and leaves its ActiveAlert, when it has one, and its
\* last-trigger timestamp exactly as they were.
C7_SuppressedCheckFrame ==
    [][IsCheckStep =>
        \A i \in 1..Len(Rules) :
            LET r == Rules[i] IN
            ( /\ r.field = lastCheck'.field
              /\ CondTrue(r, lastCheck')
              /\ r.id \in DOMAIN cooldowns
              /\ alClock - cooldowns[r.id] < r.cooldown )
            => /\ ~Emitted(r.id, triggered')
               /\ Entry(active', r.id) = Entry(active, r.id)
               /\ Entry(cooldowns', r.id) = Entry(cooldowns, r.id)
      ]_vars

\* C7 witness: "hot" triggered on 75, and a check with 80 inside the
\* cooldown window returned nothing and left the alert of 75 active.
C7_Witness ==
    /\ lastCheck = [field |-> "cpu_temp", value |-> 80]
    /\ triggered = <<>>
    /\ "hot" \in DOMAIN active
    /\ active["hot"].value = 75
    /\ active["hot"].timestamp < alClock
    /\ alClock - cooldowns["hot"] < RuleOf("hot").cooldown

\* C8 as stated: a check whose condition is false for a rule removes the
\* rule's ActiveAlert, returns no alert for it and leaves every other
\* rule's active state as it was; a check of a field no rule matches
\* changes nothing.
C8_ClearLeavesOthers ==
    [][IsCheckStep =>
        /\ \A i \in 1..Len(Rules) :
               LET r == Rules[i] IN
               (r.field = lastCheck'.field /\ ~CondTrue(r, lastCheck'))
               => /\ r.id \notin DOMAIN active'
                  /\ ~Emitted(r.id, triggered')
                  /\ \A j \in 1..Len(Rules) :
                         j /= i =>
                             Entry(active', Rules[j].id) =
                                 Entry(active, Rules[j].id)
        /\ (\A i \in 1..Len(Rules) : Rules[i].field /= lastCheck'.field)
               => /\ UNCHANGED <<cooldowns, active>>
                  /\ triggered' = <<>>
      ]_vars

\* C8 amended: a check whose condition is false for a rule removes the
\* rule's ActiveAlert, returns no alert for it and leaves the active state
\* of every rule of another field as it was (another rule of the same
\* field is triggered or cleared by its own condition in the same call); a
\* check of a field no rule matches changes nothing.
C8_ClearLeavesOtherFields ==
    [][IsCheckStep =>
        /\ \A i \in 1..Len(Rules) :
               LET r == Rules[i] IN
               (r.field = lastCheck'.field /\ ~CondTrue(r, lastCheck'))
               => /\ r.id \notin DOMAIN active'
                  /\ ~Emitted(r.id, triggered')
                  /\ \A j \in 1..Len(Rules) :
                         Rules[j].field /= r.field =>
                             /\ Entry(active', Rules[j].id) =
                                    Entry(active, Rules[j].id)
                             /\ Entry(cooldowns', Rules[j].id) =
                                    Entry(cooldowns, Rules[j].id)
        /\ (\A i \in 1..Len(Rules) : Rules[i].field /= lastCheck'.field)
               => /\ UNCHANGED <<cooldowns, active>>
                  /\ triggered' = <<>>
      ]_vars

\* C8 witness: "hot" had triggered and a check with 60 cleared it, while
\* the same call triggered "cold" and left "humid" active.
C8_Witness ==
    /\ lastCheck = [field |-> "cpu_temp", value |-> 60]
    /\ "hot" \in DOMAIN cooldowns
    /\ "hot" \notin DOMAIN active
    /\ ~Emitted("hot", triggered)
    /\ Emitted("cold", triggered)
    /\ "humid" \in DOMAIN active

\* C9: a rule that has never triggered emits an alert on the first check
\* where its condition is true, whatever the clock reads; a cleared rule
\* emits again on a condition-true check once `cooldown` has elapsed since
\* its last trigger.
C9_FirstCheckTriggers ==
    [][IsCheckStep =>
        \A i \in 1..Len(Rules) :
            LET r == Rules[i] IN
            ( /\ r.field = lastCheck'.field
              /\ CondTrue(r, lastCheck')
              /\ \/ r.id \notin DOMAIN cooldowns
                 \/ /\ r.id \notin DOMAIN active
                    /\ alClock - cooldowns[r.id] >= r.cooldown )
            => Emitted(r.id, triggered')
      ]_vars

\* C36: a check whose condition is true for a rule that has an ActiveAlert
\* emits a new alert when `cooldown` has elapsed since the rule's last
\* trigger, and the new alert, with the value and the time of this check,
\* replaces the ActiveAlert; inside the window it emits nothing and the
\* ActiveAlert stays.
C36_SustainedRenotified ==
    [][IsCheckStep =>
        \A i \in 1..Len(Rules) :
            LET r == Rules[i] IN
            ( /\ r.field = lastCheck'.field
              /\ CondTrue(r, lastCheck')
              /\ r.id \in DOMAIN active )
            => IF alClock - cooldowns[r.id] >= r.cooldown
               THEN /\ Emitted(r.id, triggered')
                    /\ active'[r.id] = MakeAlert(r, lastCheck'.field,
                                                 lastCheck'.value, alClock)
                    /\ active'[r.id].timestamp - active[r.id].timestamp
                           >= r.cooldown
               ELSE /\ ~Emitted(r.id, triggered')
                    /\ active'[r.id] = active[r.id]
      ]_vars

\* C36 witness: "hot", still active, is notified a second time exactly one
\* cooldown after its previous trigger, with the value of this check.
C36_Witness ==
    /\ "hot" \in DOMAIN prevTrigger
    /\ alClock - prevTrigger["hot"] = RuleOf("hot").cooldown
    /\ Emitted("hot", triggered)
    /\ lastCheck = [field |-> "cpu_temp", value |-> 75]
    /\ active["hot"] = MakeAlert(RuleOf("hot"), "cpu_temp", 75, alClock)

(***************************************************************************)
(* web_app.py: the bus wired to the store and to the alert manager         *)
(***************************************************************************)

\* recording_publish() calls of the model.
MaxWirePublish == 2

\* The clock values they are made at.
MaxWireClock == 1

\* A value of a payload: its Python type and the number it is worth.
IntValue(v) == [type |-> "int", v |-> v]
FloatValue(v) == [type |-> "float", v |-> v]
BoolValue(b) == [type |-> "bool", v |-> IF b THEN 1 ELSE 0]
StrValue == [type |-> "str", v |-> 0]

\* A dict payload is the list of its items; anything else is not a dict.
DictPayload(items) == [dict |-> TRUE, items |-> items]
OtherPayload == [dict |-> FALSE, items |-> <<>>]

\* The payloads the sources publish.
WirePayloads ==
    { DictPayload(<< [field |-> "cpu_temp", value |-> IntValue(75)],
                     [field |-> "_raw",     value |-> IntValue(1)],
                     [field |-> "humidity", value |-> FloatValue(75)],
                     [field |-> "name",     value |-> StrValue] >>),
      DictPayload(<< [field |-> "cpu_temp", value |-> FloatValue(60)],
                     [field |-> "online",   value |-> BoolValue(TRUE)] >>),
      OtherPayload }

\* The topics they publish on.
WireTopics == {"t1", "camera1"}

\* "camera" in topic, field.startswith("_"): over the names of the model.
HasCamera(topic) == topic \in {"camera1"}
IsPrivate(field) == field \in {"_raw"}

\* isinstance(value, (int, float)); bool is a subclass of int.
IsNumber(value) == value.type \in {"int", "float", "bool"}

\* The lists of sensor fields a configuration gives.
WireFieldSets == {{}, {"cpu_temp"}}

\* _wire_data_store before it wraps bus.publish.
WireInitAs(fields) ==
    /\ wireFields = fields
    /\ wireMsg = <<>>
    /\ wireCalls = <<>>
    /\ wireCount = 0

\* The loop of publish() over the topic's subscribers, run to its end: a
\* call of cbBad raises, and the exception is logged.
RECURSIVE DeliverAll(_, _, _, _, _)
DeliverAll(subs, i, topic, payload, inv) ==
    IF i > Len(subs) THEN inv
    ELSE DeliverAll(subs, i + 1, topic, payload,
                    WebCall(subs[i], topic, payload, subs[i] = "cbBad", inv).invoked)

\* The state a recording_publish() call works on.
WireState ==
    [latest |-> webLatest, clients |-> sseClients, queues |-> sseQueue,
     dropped |-> sseDropped, invoked |-> webInvoked, published |-> webPublished,
     buffer |-> write_buffer, recorded |-> nRecorded, batches |-> inBatches,
     cooldowns |-> cooldowns, active |-> active, triggered |-> triggered,
     lastCheck |-> lastCheck, evaluated |-> alEvaluated, calls |-> <<>>]

\* original_publish(topic, payload): WebEventBus.publish run to its end.
OriginalPublish(topic, payload, ws) ==
    LET out == SseFanOut(1, ws.clients, ws.queues, <<topic, payload>>, {})
    IN  [ws EXCEPT
            !.latest = DictSet(ws.latest, topic, payload),
            !.published = [t \in (DOMAIN ws.published) \cup {topic} |->
                              IF t = topic
                              THEN (IF t \in DOMAIN ws.published
                                    THEN ws.published[t] ELSE <<>>) \o <<payload>>
                              ELSE ws.published[t]],
            !.queues = out.queues,
            !.clients = out.clients,
            !.dropped = [c \in SseClientIds |->
                            IF c \in out.dead THEN ws.dropped[c] + 1
                            ELSE ws.dropped[c]],
            !.invoked = DeliverAll(WebSubscribersOf(topic), 1, topic, payload,
                                   ws.invoked),
            !.calls = Append(ws.calls, [call |-> "publish", topic |-> topic,
                                        payload |-> payload])]

\* store.record(field, fval).
RecordCall(field, fval, ws) ==
    [ws EXCEPT
        !.buffer = Append(ws.buffer, [id |-> ws.recorded + 1, ts |-> stClock,
                                      field |-> field, value |-> fval]),
        !.recorded = ws.recorded + 1,
        !.batches = DictSet(ws.batches, ws.recorded + 1, 0),
        !.calls = Append(ws.calls, [call |-> "record", field |-> field,
                                    value |-> fval])]

\* bus.publish("alert", alert) once the bus is wired: the numbers of the
\* alert are recorded in their turn
PublishAlertWired(alert, ws) ==
    RecordCall("timestamp", alert.timestamp,
        RecordCall("value", alert.value, OriginalPublish("alert", alert, ws)))

\* original_publish("alert", alert)
PublishAlert(alert, ws) == OriginalPublish("alert", alert, ws)

\* for alert in triggered: from alert i on.
RECURSIVE PublishAlerts(_, _, _)
PublishAlerts(alerts, i, ws) ==
    IF i > Len(alerts) THEN ws
    ELSE PublishAlerts(alerts, i + 1, PublishAlert(alerts[i], ws))

\* if alert_manager: triggered = alert_manager.check(field, fval), and the
\* alerts returned are published.
CheckCall(field, fval, ws) ==
    IF alManager /= "loaded" THEN ws
    ELSE LET st == CheckOver(alRules, 1, field, fval, alClock,
                             [cooldowns |-> ws.cooldowns, active |-> ws.active,
                              triggered |-> <<>>])
             checked == [ws EXCEPT
                 !.cooldowns = st.cooldowns,
                 !.active = st.active,
                 !.triggered = st.triggered,
                 !.lastCheck = [field |-> field, value |-> fval],
                 !.evaluated = ws.evaluated \cup
                     {alRules[k].pos :
                          k \in {j \in 1..Len(alRules) : alRules[j].field = field}},
                 !.calls = Append(ws.calls, [call |-> "check", field |-> field,
                                             value |-> fval,
                                             returned |-> st.triggered])]
         IN  PublishAlerts(st.triggered, 1, checked)

\* The item passes the three tests of the loop: no leading underscore, a
\* number, and a known field when the configuration lists fields.
Recorded(item) ==
    /\ ~IsPrivate(item.field)
    /\ IsNumber(item.value)
    /\ (wireFields /= {} => item.field \in wireFields)

\* for field, value in payload.items(): from item i on.
RECURSIVE RecordItems(_, _, _)
RecordItems(items, i, ws) ==
    IF i > Len(items) THEN ws
    ELSE RecordItems(items, i + 1,
             IF Recorded(items[i])
             THEN CheckCall(items[i].field, items[i].value.v,
                            RecordCall(items[i].field, items[i].value.v, ws))
             ELSE ws)

\* recording_publish(topic, payload), from its first line to its return.
RecordingPublish(topic, payload, ws) ==
    LET published == OriginalPublish(topic, payload, ws)
    IN  IF ~payload.dict \/ HasCamera(topic) THEN published
        ELSE RecordItems(payload.items, 1, published)

\* A source publishes through the wired bus.
WiredPublish(topic, payload) ==
    /\ hostMode = "web"
    /\ alManager /= "unwired"
    /\ LET ws == RecordingPublish(topic, payload, WireState)
       IN  /\ webLatest' = ws.latest
           /\ sseClients' = ws.clients
           /\ sseQueue' = ws.queues
           /\ sseDropped' = ws.dropped
           /\ webInvoked' = ws.invoked
           /\ webPublished' = ws.published
           /\ write_buffer' = ws.buffer
           /\ nRecorded' = ws.recorded
           /\ inBatches' = ws.batches
           /\ cooldowns' = ws.cooldowns
           /\ active' = ws.active
           /\ triggered' = ws.triggered
           /\ lastCheck' = ws.lastCheck
           /\ alEvaluated' = ws.evaluated
           /\ wireCalls' = ws.calls
    /\ wireMsg' = <<topic, payload>>
    /\ wireCount' = wireCount + 1
    /\ stCall' = NoCall
    /\ UNCHANGED <<hostMode, busVars, srcVars, lockVars, camVars, checkVars,
                 wireFields>>
    /\ UNCHANGED <<webSubscribers, webEarly, webPc, webMsg, webIdx, webResult,
                   sseOpen, sseLast, webSnapshot, webDead, webUnserved>>
    /\ UNCHANGED <<stClock, readings, hourly_avg, write_lock, stop_event, stPc,
                   stBatch, dsRows, stPending>>
    /\ UNCHANGED <<alClock, prevTrigger, alConfig, alManager, alRules>>

\* The configuration whose rules are well formed.
WireRuleConfig ==
    << [id |-> "hot", field |-> "cpu_temp",
        condition |-> StrCond(<<">", " ", "7", "0">>), cooldown |-> 0],
       [id |-> "humid", field |-> "humidity",
        condition |-> StrCond(<<">", "=", "7", "5">>), level |-> "warn",
        cooldown |-> 1] >>

\* The wired host: a subscriber of the sensor topic and one of "alert", an
\* SSE client, and sources that publish.
WireNext ==
    \/ WireAlerts
    \/ \E topic \in WireTopics : \E payload \in WirePayloads :
           wireCount < MaxWirePublish /\ WiredPublish(topic, payload)
    \/ \E t \in {"t1", "alert"} :
           WebSubscribersOf(t) = <<>> /\ WebSubscribe(t, "cbOk")
    \/ SseConnect("c1")
    \/ SseGet("c1")
    \/ alClock < MaxWireClock /\ AlertTick

\* The calls of one kind in a list of calls.
CallsOf(kind, calls) == SelectSeq(calls, LAMBDA c : c.call = kind)

\* The items of a payload that are to be recorded: those of a dict
\* published on a topic without "camera", whose name has no leading
\* underscore, whose value is a number, and which are among the sensor
\* fields when the configuration lists any.
Eligible(topic, payload) ==
    IF ~payload.dict \/ HasCamera(topic) THEN <<>>
    ELSE SelectSeq(payload.items,
                   LAMBDA it : /\ ~IsPrivate(it.field)
                               /\ it.value.type \in {"int", "float", "bool"}
                               /\ (wireFields = {} \/ it.field \in wireFields))

\* The alerts returned by a list of check() calls, in order.
RECURSIVE Returned(_)
Returned(checks) ==
    IF checks = <<>> THEN <<>>
    ELSE checks[1].returned \o Returned(Tail(checks))

\* How many times a message occurs in a list.
Occurrences(list, x) == Cardinality({i \in 1..Len(list) : list[i] = x})

\* C27: a recording_publish(topic, payload) call first publishes the
\* payload on the bus, once: the cache holds it or an alert that followed,
\* every subscriber of the topic is called with it and it is put on the
\* queue of every SSE client whose queue has room. Then, in the order of
\* the items, every eligible field is passed once to record() and, when
\* there is an alert manager, once to check(), nothing else is recorded
\* or checked, and the alerts the checks returned, and nothing else, are
\* published on "alert".
C27_WiredFanOut ==
    [][ wireCount' /= wireCount =>
            LET topic == wireMsg'[1]
                payload == wireMsg'[2]
                records == CallsOf("record", wireCalls')
                checks == CallsOf("check", wireCalls')
                pubs == CallsOf("publish", wireCalls')
                eligible == Eligible(topic, payload)
            IN  /\ wireCalls'[1] = [call |-> "publish", topic |-> topic,
                                    payload |-> payload]
                /\ \A cb \in Callbacks :
                       Occurrences(webInvoked'[cb],
                                   [topic |-> topic, payload |-> payload,
                                    raised |-> cb = "cbBad"])
                       = Occurrences(webInvoked[cb],
                                     [topic |-> topic, payload |-> payload,
                                      raised |-> cb = "cbBad"])
                         + CountIn(WebSubscribersOf(topic), cb)
                /\ \A c \in Registered(sseClients) :
                       Len(sseQueue[c]) < SseQueueSize =>
                           Occurrences(sseQueue'[c], <<topic, payload>>)
                               = Occurrences(sseQueue[c], <<topic, payload>>) + 1
                /\ Len(records) = Len(eligible)
                /\ \A k \in 1..Len(records) :
                       /\ records[k].field = eligible[k].field
                       /\ records[k].value = eligible[k].value.v
                /\ Len(write_buffer') = Len(write_buffer) + Len(eligible)
                /\ \A k \in 1..Len(eligible) :
                       /\ write_buffer'[Len(write_buffer) + k].field = eligible[k].field
                       /\ write_buffer'[Len(write_buffer) + k].value = eligible[k].value.v
                /\ Len(checks) = IF alManager = "loaded" THEN Len(eligible) ELSE 0
                /\ \A k \in 1..Len(checks) :
                       /\ checks[k].field = eligible[k].field
                       /\ checks[k].value = eligible[k].value.v
                /\ Len(pubs) = 1 + Len(Returned(checks))
                /\ \A k \in 2..Len(pubs) :
                       /\ pubs[k].topic = "alert"
                       /\ pubs[k].payload = Returned(checks)[k - 1]
      ]_vars

\* C27 witness: with both rules loaded and no list of sensor fields, the
\* payload {cpu_temp: 75, _raw: 1, humidity: 75.0, name: str} was published
\* on t1: two fields were recorded and checked, both rules triggered, and
\* the two alerts went to the subscriber of "alert" and, after the
\* payload, to the SSE client.
C27_Witness ==
    /\ wireCount >= 1
    /\ wireMsg[1] = "t1"
    /\ Len(wireMsg[2].items) = 4
    /\ alManager = "loaded"
    /\ wireFields = {}
    /\ Len(CallsOf("record", wireCalls)) = 2
    /\ Len(CallsOf("check", wireCalls)) = 2
    /\ Len(CallsOf("publish", wireCalls)) = 3
    /\ Len(write_buffer) = 2
    /\ WebSubscribersOf("alert") = <<"cbOk">>
    /\ Len(webInvoked["cbOk"]) = 2
    /\ Len(sseQueue["c1"]) = 3
    /\ sseQueue["c1"][1] = wireMsg

(***************************************************************************)
(* DataSource: the background worker of one data producer                  *)
(***************************************************************************)

\* Lifecycle calls made on the source, and with them the workers it can
\* have created.
MaxSrcCalls == 3

Workers == 1..MaxSrcCalls

\* config.get("interval", 5.0), in milliseconds.
SrcIntervals == {50, 300}

\* The length of one slice, time.sleep(0.1), in milliseconds.
SliceMs == 100

\* max(int(self.interval * 10), 1)
Chunks(interval) == Max2(TruncDiv(interval * 10, 10 * SliceMs), 1)

\* What a call of fetch() does: it returns a dict, returns None or raises.
FetchOutcomes == {"data", "none", "raise"}

\* What bus.publish(topic, data) does: it returns or raises.
PublishOutcomes == {"ok", "raise"}

SrcTopic == "s1"

NoCycle == [fetch |-> "none yet", published |-> <<>>]

NoAfterStop == [fetch |-> 0, sleep |-> 0, publish |-> 0]

\* Thread.is_alive() of a worker.
IsAlive(w) == srcPc[w] \notin {"new", "dead"}

AliveWorkers == {w \in Workers : IsAlive(w)}

\* DataSource.__init__ of a source of the given kind and interval: flag
\* clear, no thread.
SrcInitAs(kind, interval) ==
    /\ srcKind = kind
    /\ srcInterval = interval
    /\ srcStop = FALSE
    /\ srcThread = 0
    /\ srcPc = [w \in Workers |-> "new"]
    /\ srcChunk = [w \in Workers |-> 0]
    /\ srcLast = "none"
    /\ srcCalls = 0
    /\ srcCycle = [w \in Workers |-> NoCycle]
    /\ srcAtStop = [w \in Workers |-> "none"]
    /\ srcAfterStop = [w \in Workers |-> NoAfterStop]

\* config.get("interval", 5.0): the default, in milliseconds.
DefaultInterval == 5000

SrcInit == SrcInitAs("base", DefaultInterval)

\* start() without its first two lines: a thread is created whether or not
\* the last one is alive
SrcStartAlways ==
    /\ UNCHANGED notSrc
    /\ srcLast' = "start"
    /\ srcCalls' = srcCalls + 1
    /\ LET w == CHOOSE x \in Workers :
                    srcPc[x] = "new" /\ \A y \in Workers : srcPc[y] = "new" => x <= y
       IN  /\ srcStop' = FALSE
           /\ srcThread' = w
           /\ srcPc' = [srcPc EXCEPT ![w] = "while"]
           /\ srcAtStop' = [x \in Workers |-> "none"]
    /\ UNCHANGED <<srcKind, srcInterval, srcChunk, srcCycle, srcAfterStop>>

\* start(): nothing when self._thread is alive; otherwise the flag is
\* cleared and a new thread is created and started.
SrcStart ==
    /\ UNCHANGED notSrc
    /\ srcLast' = "start"
    /\ srcCalls' = srcCalls + 1
    /\ IF srcThread /= 0 /\ IsAlive(srcThread)
       THEN UNCHANGED <<srcStop, srcThread, srcPc, srcAtStop>>
       ELSE LET w == CHOOSE x \in Workers :
                         srcPc[x] = "new" /\ \A y \in Workers : srcPc[y] = "new" => x <= y
            IN  /\ srcStop' = FALSE
                /\ srcThread' = w
                /\ srcPc' = [srcPc EXCEPT ![w] = "while"]
                /\ srcAtStop' = [x \in Workers |-> "none"]
    /\ UNCHANGED <<srcKind, srcInterval, srcChunk, srcCycle, srcAfterStop>>

\* stop(): self._stop.set().
SrcStop ==
    /\ UNCHANGED notSrc
    /\ srcLast' = "stop"
    /\ srcCalls' = srcCalls + 1
    /\ srcStop' = TRUE
    /\ srcAtStop' = IF srcStop THEN srcAtStop
                    ELSE [w \in Workers |-> IF IsAlive(w) THEN srcPc[w] ELSE "none"]
    /\ UNCHANGED <<srcKind, srcInterval, srcThread, srcPc, srcChunk, srcCycle,
                   srcAfterStop>>

\* a while loop without its test of the flag
SrcWhileNoTest(w) ==
    /\ UNCHANGED notSrc
    /\ srcPc[w] = "while"
    /\ srcPc' = [srcPc EXCEPT ![w] = "call"]
    /\ UNCHANGED <<srcKind, srcInterval, srcStop, srcThread, srcChunk, srcLast,
                   srcCalls, srcCycle, srcAtStop, srcAfterStop>>

\* while not self._stop.is_set(): the worker leaves _run when the flag is
\* set and starts a cycle otherwise.
SrcWhile(w) ==
    /\ UNCHANGED notSrc
    /\ srcPc[w] = "while"
    /\ srcPc' = [srcPc EXCEPT ![w] = IF srcStop THEN "dead" ELSE "call"]
    /\ UNCHANGED <<srcKind, srcInterval, srcStop, srcThread, srcChunk, srcLast,
                   srcCalls, srcCycle, srcAtStop, srcAfterStop>>

\* self.fetch() is called.
SrcFetchCall(w) ==
    /\ UNCHANGED notSrc
    /\ srcPc[w] = "call"
    /\ srcPc' = [srcPc EXCEPT ![w] = "fetch"]
    /\ srcCycle' = [srcCycle EXCEPT ![w] = [fetch |-> "running", published |-> <<>>]]
    /\ srcAfterStop' = IF srcStop
                       THEN [srcAfterStop EXCEPT ![w].fetch = Min2(@ + 1, 2)]
                       ELSE srcAfterStop
    /\ UNCHANGED <<srcKind, srcInterval, srcStop, srcThread, srcChunk, srcLast,
                   srcCalls, srcAtStop>>

\* The try block with the except clause left out: an exception of fetch()
\* or publish() ends _run
SrcAfterFetchNoCatch(kind, raised) ==
    IF raised THEN "dead"
    ELSE IF kind = "base" THEN "for" ELSE "while"

\* Where the worker goes after the try block: DataSource._run to its for
\* loop of slices; CameraSource._run back to the while test, after
\* time.sleep(1.0) when an exception was caught.
SrcAfterFetch(kind, raised) ==
    IF kind = "base" THEN "for"
    ELSE IF raised THEN "pause" ELSE "while"

\* fetch() ends with the outcome out: a result that is not None is
\* published on the source's topic, and an exception of fetch() or of
\* publish() is caught and logged.
SrcFetchReturn(w, out, pub) ==
    /\ UNCHANGED notSrc
    /\ srcPc[w] = "fetch"
    /\ out /= "data" => pub = "ok"
    /\ srcCycle' = [srcCycle EXCEPT ![w] =
           [fetch |-> out,
            published |-> IF out = "data"
                          THEN <<[topic |-> SrcTopic, data |-> "d", raised |-> pub = "raise"]>>
                          ELSE <<>>]]
    /\ srcPc' = [srcPc EXCEPT ![w] =
                    SrcAfterFetch(srcKind, out = "raise" \/ pub = "raise")]
    /\ srcChunk' = [srcChunk EXCEPT ![w] = Chunks(srcInterval)]
    /\ srcAfterStop' = IF srcStop /\ out = "data"
                       THEN [srcAfterStop EXCEPT ![w].publish = Min2(@ + 1, 2)]
                       ELSE srcAfterStop
    /\ UNCHANGED <<srcKind, srcInterval, srcStop, srcThread, srcLast, srcCalls,
                   srcAtStop>>

\* The for loop with its test of the flag left out
SrcForGoesOn(chunk, stop) == chunk > 0

\* for _ in range(max(chunks, 1)): if self._stop.is_set(): break. The loop
\* goes on to time.sleep(0.1) while iterations are left and the flag is
\* clear.
SrcForSleeps(chunk, stop) == chunk > 0 /\ ~stop

\* One turn of the for loop of DataSource._run: the loop is left, or the
\* worker is about to call time.sleep(0.1).
SrcFor(w) ==
    /\ UNCHANGED notSrc
    /\ srcPc[w] = "for"
    /\ IF SrcForSleeps(srcChunk[w], srcStop)
       THEN /\ srcPc' = [srcPc EXCEPT ![w] = "slice"]
            /\ srcChunk' = [srcChunk EXCEPT ![w] = @ - 1]
       ELSE /\ srcPc' = [srcPc EXCEPT ![w] = "while"]
            /\ UNCHANGED srcChunk
    /\ UNCHANGED <<srcKind, srcInterval, srcStop, srcThread, srcLast, srcCalls,
                   srcCycle, srcAtStop, srcAfterStop>>

\* time.sleep(0.1), or time.sleep(1.0) of CameraSource, is called.
SrcSleep(w) ==
    /\ UNCHANGED notSrc
    /\ srcPc[w] \in {"slice", "pause"}
    /\ srcPc' = [srcPc EXCEPT ![w] = IF @ = "slice" THEN "sleeping" ELSE "pausing"]
    /\ srcAfterStop' = IF srcStop
                       THEN [srcAfterStop EXCEPT ![w].sleep = Min2(@ + 1, 2)]
                       ELSE srcAfterStop
    /\ UNCHANGED <<srcKind, srcInterval, srcStop, srcThread, srcChunk, srcLast,
                   srcCalls, srcCycle, srcAtStop>>

\* The sleep is over.
SrcWake(w) ==
    /\ UNCHANGED notSrc
    /\ srcPc[w] \in {"sleeping", "pausing"}
    /\ srcPc' = [srcPc EXCEPT ![w] = IF @ = "sleeping" THEN "for" ELSE "while"]
    /\ UNCHANGED <<srcKind, srcInterval, srcStop, srcThread, srcChunk, srcLast,
                   srcCalls, srcCycle, srcAtStop, srcAfterStop>>

\* The steps of the workers.
SrcWorkerNext ==
    \/ \E w \in Workers : SrcWhile(w)
    \/ \E w \in Workers : SrcFetchCall(w)
    \/ \E w \in Workers : \E out \in FetchOutcomes : \E pub \in PublishOutcomes :
           SrcFetchReturn(w, out, pub)
    \/ \E w \in Workers : SrcFor(w)
    \/ \E w \in Workers : SrcSleep(w)
    \/ \E w \in Workers : SrcWake(w)

\* The lifecycle calls, made one after the other by the host.
SrcLifecycleNext ==
    \/ srcCalls < MaxSrcCalls /\ SrcStart
    \/ srcCalls < MaxSrcCalls /\ SrcStop

SourceNext == SrcLifecycleNext \/ SrcWorkerNext

\* The step is a call of start(), of stop().
IsStartCall == srcCalls' /= srcCalls /\ srcLast' = "start"
IsStopCall == srcCalls' /= srcCalls /\ srcLast' = "stop"

\* C22: a start() called while the worker is alive creates no thread and
\* changes nothing of the source, and after any sequence of start() and
\* stop() calls at most one worker of the source is alive.
C22_StartIdempotent ==
    [][ /\ Cardinality(AliveWorkers') <= 1
        /\ (IsStartCall /\ AliveWorkers /= {}) =>
               /\ srcPc' = srcPc
               /\ srcThread' = srcThread
               /\ srcStop' = srcStop
      ]_vars

\* C22 witness: start() was called twice, no stop(); the worker of the
\* first call is the only one there is, and it runs.
C22_Witness ==
    /\ srcCalls = 2
    /\ srcLast = "start"
    /\ ~srcStop
    /\ srcThread = 1
    /\ AliveWorkers = {1}
    /\ srcPc[2] = "new"

\* C23: if from some moment on start() is the most recent lifecycle call,
\* then the source has a worker that calls fetch() again and again.
C23_StartedKeepsFetching ==
    <>[](srcLast = "start") => []<>(\E w \in Workers : srcPc[w] = "fetch")

\* The sleeps and fetches of a worker of DataSource._run once the flag is
\* set: at most one slice is begun; a worker the flag found inside fetch()
\* begins no slice and no other fetch(); a worker it found in the for loop
\* begins no fetch().
StopBounds(w) ==
    /\ srcAfterStop[w].sleep <= 1
    /\ srcAtStop[w] = "fetch" =>
           srcAfterStop[w].fetch = 0 /\ srcAfterStop[w].sleep = 0
    /\ srcAtStop[w] \in {"for", "slice", "sleeping"} => srcAfterStop[w].fetch = 0

\* C24: stop() changes nothing but the flag: the worker is where it was,
\* inside fetch() if it was there. In DataSource._run, whatever the
\* interval, a worker begins at most one time.sleep(0.1) once the flag is
\* set, none if the flag found it inside fetch(), and no fetch() if the
\* flag found it in fetch() or between two cycles; and a worker alive with
\* the flag set ends.
C24_StopWithinOneSlice ==
    /\ [][ /\ IsStopCall => (srcPc' = srcPc /\ srcThread' = srcThread
                             /\ srcChunk' = srcChunk /\ srcCycle' = srcCycle)
           /\ srcKind = "base" => \A w \in Workers : StopBounds(w)'
         ]_vars
    /\ \A w \in Workers :
           (srcKind = "base" /\ srcStop /\ IsAlive(w)) ~> ~IsAlive(w)

\* C24 witness: with an interval of three slices, stop() came when the
\* worker had tested the flag and was about to sleep its first slice; the
\* worker slept that one slice and left _run with two slices not slept.
C24_Witness ==
    /\ srcKind = "base"
    /\ srcInterval = 300
    /\ srcStop
    /\ srcAtStop[1] = "slice"
    /\ srcAfterStop[1] = [fetch |-> 0, sleep |-> 1, publish |-> 0]
    /\ srcChunk[1] = 2
    /\ srcPc[1] = "dead"

\* C25: when fetch() ends, a result that is not None has been published
\* once, on the source's topic, and None or an exception has published
\* nothing; whatever fetch() or publish() raised, the worker stays in its
\* loop; and a worker leaves _run only with the stop flag set.
C25_CycleAbsorbsErrors ==
    [][ \A w \in Workers :
            /\ (srcPc[w] = "fetch" /\ srcPc'[w] /= "fetch") =>
                   /\ srcCycle'[w].fetch = "data" =>
                          /\ Len(srcCycle'[w].published) = 1
                          /\ srcCycle'[w].published[1].topic = SrcTopic
                   /\ srcCycle'[w].fetch \in {"none", "raise"} =>
                          srcCycle'[w].published = <<>>
                   /\ srcPc'[w] \in {"for", "pause", "while"}
            /\ (IsAlive(w) /\ srcPc'[w] = "dead") => srcStop
      ]_vars

\* C25 witness: the fetch() of the worker's last cycle raised, nothing was
\* published, and the worker, not stopped, is about to call fetch() again.
C25_Witness ==
    /\ srcCycle[1].fetch = "raise"
    /\ srcCycle[1].published = <<>>
    /\ srcPc[1] = "call"
    /\ ~srcStop

\* C34: with the stop flag set, a worker begins at most one fetch() and
\* publishes at most one payload, on the source's topic, and a worker alive
\* with the flag set ends.
C34_AtMostOneFetchAfterStop ==
    /\ [](\A w \in Workers :
              /\ srcAfterStop[w].fetch <= 1
              /\ srcAfterStop[w].publish <= 1)
    /\ [][\A w \in Workers :
              srcAfterStop'[w].publish > srcAfterStop[w].publish =>
                  /\ Len(srcCycle'[w].published) = 1
                  /\ srcCycle'[w].published[1].topic = SrcTopic]_vars
    /\ \A w \in Workers : (srcStop /\ IsAlive(w)) ~> ~IsAlive(w)

\* C34 witness: stop() came when the worker had tested the flag and was
\* about to call fetch(); the worker made that one call, published its
\* result and left _run.
C34_Witness ==
    /\ srcStop
    /\ srcAtStop[1] = "call"
    /\ srcAfterStop[1].fetch = 1
    /\ srcAfterStop[1].publish = 1
    /\ srcPc[1] = "dead"

(***************************************************************************)
(* CameraSource: the capture subprocess and its restarts                   *)
(*                                                                         *)
(* Pillow is installed and demo mode is off. Time is counted in half       *)
(* seconds. The source has one worker, started once, and close() is called *)
(* once, after start(), as web_app.main does.                              *)
(***************************************************************************)

\* Bounds of the model: fetch() calls of the worker, and ticks of the
\* clock apart from the sleeps.
MaxCamFetch == 3
MaxCamTicks == 2

\* self._restart_backoff = 5.0, time.sleep(1.0) of _start_ffmpeg and
\* time.sleep(0.5) after a short read, in half seconds.
RestartBackoff == 10
WarmUp == 2
ShortReadPause == 1

\* CameraSource.__init__: no subprocess, _last_restart = 0; the clock
\* stands somewhere past the epoch.
CamInit ==
    /\ camClock = 2 * RestartBackoff
    /\ camStop = FALSE
    /\ camPc = "new"
    /\ camProcess = 0
    /\ camRunning = {}
    /\ camStarted = 0
    /\ camLast = 0
    /\ camAttempts = <<>>
    /\ camResults = <<>>
    /\ camClose = "no"

\* Half a second passes while the worker is blocked or not scheduled.
CamTick ==
    /\ UNCHANGED notCam
    /\ camClock < 2 * RestartBackoff + MaxCamTicks
    /\ camClock' = camClock + 1
    /\ UNCHANGED <<camStop, camPc, camProcess, camRunning, camStarted, camLast,
                   camAttempts, camResults, camClose>>

\* start(): the worker is created and started.
CamStart ==
    /\ UNCHANGED notCam
    /\ camPc = "new"
    /\ camPc' = "while"
    /\ UNCHANGED <<camClock, camStop, camProcess, camRunning, camStarted,
                   camLast, camAttempts, camResults, camClose>>

\* _run: while not self._stop.is_set()
CamWhile ==
    /\ UNCHANGED notCam
    /\ camPc = "while"
    /\ camStop \/ Len(camResults) < MaxCamFetch
    /\ camPc' = IF camStop THEN "dead" ELSE "call"
    /\ UNCHANGED <<camClock, camStop, camProcess, camRunning, camStarted,
                   camLast, camAttempts, camResults, camClose>>

\* a fetch() that restarts whenever the subprocess is not running
CanRestartAlways(now, last) == TRUE

\* now - self._last_restart < self._restart_backoff is false.
CanRestart(now, last) == ~(now - last < RestartBackoff)

\* fetch(), up to the restart: with the subprocess running the worker goes
\* to its read; otherwise _process is None from here on, and either the
\* backoff window is still open, and the worker will sleep to its end and
\* return None, or _last_restart is set to now and _start_ffmpeg() called.
CamFetch ==
    /\ UNCHANGED notCam
    /\ camPc = "call"
    /\ IF camProcess /= 0 /\ camProcess \in camRunning
       THEN /\ camPc' = "read"
            /\ UNCHANGED <<camProcess, camLast, camAttempts>>
       ELSE /\ camProcess' = 0
            /\ IF CanRestart(camClock, camLast)
               THEN /\ camLast' = camClock
                    /\ camAttempts' = Append(camAttempts, camClock)
                    /\ camPc' = "popen"
               ELSE /\ camPc' = "backoff"
                    /\ UNCHANGED <<camLast, camAttempts>>
    /\ UNCHANGED <<camClock, camStop, camRunning, camStarted, camResults,
                   camClose>>

\* fetch(): time.sleep(self._restart_backoff - (now - self._last_restart)),
\* then return None.
CamBackoff ==
    /\ UNCHANGED notCam
    /\ camPc = "backoff"
    /\ camClock' = Max2(camClock, camLast + RestartBackoff)
    /\ camResults' = Append(camResults, "skip")
    /\ camPc' = "while"
    /\ UNCHANGED <<camStop, camProcess, camRunning, camStarted, camLast,
                   camAttempts, camClose>>

\* _start_ffmpeg(): the device is missing or Popen raises, and fetch()
\* sleeps the backoff window and returns None; or Popen returns a
\* subprocess, kept in self._process.
CamPopen(ok) ==
    /\ UNCHANGED notCam
    /\ camPc = "popen"
    /\ IF ok
       THEN /\ camStarted' = camStarted + 1
            /\ camProcess' = camStarted + 1
            /\ camRunning' = camRunning \cup {camStarted + 1}
            /\ camPc' = "warm"
            /\ UNCHANGED <<camClock, camResults>>
       ELSE /\ camClock' = camClock + RestartBackoff
            /\ camResults' = Append(camResults, "failed")
            /\ camPc' = "while"
            /\ UNCHANGED <<camStarted, camProcess, camRunning>>
    /\ UNCHANGED <<camStop, camLast, camAttempts, camClose>>

\* _start_ffmpeg(), after Popen: time.sleep(1.0), then self._process.poll().
\* A subprocess that has exited, or a _process that close() has set to None
\* meanwhile (the AttributeError is caught), makes _start_ffmpeg() return
\* False, and fetch() sleeps the backoff window and returns None.
CamWarm ==
    /\ UNCHANGED notCam
    /\ camPc = "warm"
    /\ IF camProcess /= 0 /\ camProcess \in camRunning
       THEN /\ camClock' = camClock + WarmUp
            /\ camPc' = "read"
            /\ UNCHANGED <<camProcess, camResults>>
       ELSE /\ camClock' = camClock + WarmUp + RestartBackoff
            /\ camProcess' = 0
            /\ camResults' = Append(camResults, "failed")
            /\ camPc' = "while"
    /\ UNCHANGED <<camStop, camRunning, camStarted, camLast, camAttempts,
                   camClose>>

\* fetch(): self._process.stdout.read(self._frame_size) returns. A whole
\* frame is returned as a payload and published; a read of nothing from a
\* subprocess that has exited sets _process to None and, like every short
\* read, sleeps half a second and returns None; a read that raises (as it
\* does when close() has set _process to None) sets _process to None and
\* returns None.
CamRead(out) ==
    /\ UNCHANGED notCam
    /\ camPc = "read"
    /\ out \in {"data", "short", "eof", "error"}
    /\ camProcess = 0 => out = "error"
    /\ out \in {"data", "short"} => camProcess \in camRunning
    /\ (out = "eof" /\ camProcess /= 0) => camProcess \notin camRunning
    /\ camProcess' = IF out \in {"eof", "error"} THEN 0 ELSE camProcess
    /\ camClock' = IF out \in {"short", "eof"} THEN camClock + ShortReadPause
                   ELSE camClock
    /\ camResults' = Append(camResults, out)
    /\ camPc' = "while"
    /\ UNCHANGED <<camStop, camRunning, camStarted, camLast, camAttempts,
                   camClose>>

\* ffmpeg exits on its own.
CamExit(p) ==
    /\ UNCHANGED notCam
    /\ p \in camRunning
    /\ camRunning' = camRunning \ {p}
    /\ UNCHANGED <<camClock, camStop, camPc, camProcess, camStarted, camLast,
                   camAttempts, camResults, camClose>>

\* close(), first line: super().close(), which is stop().
CamCloseStop ==
    /\ UNCHANGED notCam
    /\ camPc /= "new"
    /\ camClose = "no"
    /\ camClose' = "stopped"
    /\ camStop' = TRUE
    /\ UNCHANGED <<camClock, camPc, camProcess, camRunning, camStarted, camLast,
                   camAttempts, camResults>>

\* close(), the rest: the subprocess of self._process, if any, is
\* terminated and waited for, and _process set to None; close() returns.
CamCloseKill ==
    /\ UNCHANGED notCam
    /\ camClose = "stopped"
    /\ camClose' = "returned"
    /\ camRunning' = camRunning \ {camProcess}
    /\ camProcess' = 0
    /\ UNCHANGED <<camClock, camStop, camPc, camStarted, camLast, camAttempts,
                   camResults>>

CameraNext ==
    \/ CamTick
    \/ CamStart
    \/ CamWhile
    \/ CamFetch
    \/ CamBackoff
    \/ \E ok \in BOOLEAN : CamPopen(ok)
    \/ CamWarm
    \/ \E out \in {"data", "short", "eof", "error"} : CamRead(out)
    \/ \E p \in 1..MaxCamFetch : CamExit(p)
    \/ CamCloseStop
    \/ CamCloseKill

\* A step in which fetch() attempts a restart, and one in which it skips
\* the restart.
IsRestartAttempt == Len(camAttempts') = Len(camAttempts) + 1
IsRestartSkip == camPc = "call" /\ camPc' = "backoff"

\* C31: fetch() attempts a restart only with no subprocess running and with
\* the last attempt at least the backoff window old, the attempt becoming
\* the last one; with the window still open it starts no subprocess and
\* returns no payload; so two successive attempts are never less than one
\* window apart.
C31_RestartBackoff ==
    /\ [][IsRestartAttempt =>
              /\ camProcess = 0 \/ camProcess \notin camRunning
              /\ camClock - camLast >= RestartBackoff
              /\ camLast' = camClock
              /\ camAttempts' = Append(camAttempts, camClock)]_vars
    /\ [][IsRestartSkip =>
              /\ camClock - camLast < RestartBackoff
              /\ camStarted' = camStarted
              /\ camAttempts' = camAttempts]_vars
    /\ [][camPc = "backoff" =>
              /\ camStarted' = camStarted
              /\ camPc' = "while" => camResults' = Append(camResults, "skip")
         ]_vars
    /\ [](\A i \in 1..Len(camAttempts) - 1 :
              camAttempts[i + 1] - camAttempts[i] >= RestartBackoff)

\* C31 witness: the subprocess of the first attempt exited, the next
\* fetch() found the window open and skipped the restart, and the one after
\* it restarted, one window after the first attempt.
C31_Witness ==
    /\ Len(camAttempts) = 2
    /\ camAttempts[2] - camAttempts[1] = RestartBackoff
    /\ Len(camResults) = 2
    /\ camResults[2] = "skip"
    /\ camStarted = 2

\* C39: once close() has returned no capture subprocess of the source is
\* running and the worker creates none.
C39_NoSubprocessAfterClose ==
    /\ [](camClose = "returned" => camRunning = {})
    /\ [][camClose = "returned" => camStarted' = camStarted]_vars

(***************************************************************************)
(* AlertManager: check() called from several producer threads              *)
(***************************************************************************)

\* Bound of the model: check() calls begun.
MaxCheckCalls == 3

\* The worker threads of two sources that publish the same field through
\* recording_publish, and the field.
Producers == {"p1", "p2"}
SharedField == "cpu_temp"

CheckInit ==
    /\ ckPc = [p \in Producers |-> "idle"]
    /\ ckValue = [p \in Producers |-> 0]
    /\ ckIdx = [p \in Producers |-> 0]
    /\ ckTriggered = [p \in Producers |-> <<>>]
    /\ ckAlerts = <<>>
    /\ ckRaised = {}
    /\ ckCalls = 0

\* check(field, value) is entered: triggered = [], the loop begins.
CkCall(p, value) ==
    /\ ckPc[p] = "idle"
    /\ ckCalls < MaxCheckCalls
    /\ ckCalls' = ckCalls + 1
    /\ ckPc' = [ckPc EXCEPT ![p] = "rule"]
    /\ ckValue' = [ckValue EXCEPT ![p] = value]
    /\ ckIdx' = [ckIdx EXCEPT ![p] = 1]
    /\ ckTriggered' = [ckTriggered EXCEPT ![p] = <<>>]
    /\ ckRaised' = ckRaised \ {p}
    /\ UNCHANGED <<alertVars, ckAlerts, notCheck>>

\* The tests of one iteration of the loop: the rule's field, the condition
\* and _can_trigger(rule), or the condition and `id in self._active`.
CkRule(p) ==
    /\ ckPc[p] = "rule"
    /\ ckIdx[p] <= Len(Rules)
    /\ LET rule == Rules[ckIdx[p]]
           is_triggered == OPS(rule.op, ckValue[p], rule.threshold)
       IN  IF rule.field /= SharedField
           THEN /\ ckIdx' = [ckIdx EXCEPT ![p] = @ + 1]
                /\ ckPc' = ckPc
           ELSE IF is_triggered /\ CanTrigger(rule, cooldowns, alClock)
           THEN /\ ckPc' = [ckPc EXCEPT ![p] = "set"]
                /\ ckIdx' = ckIdx
           ELSE IF ~is_triggered /\ rule.id \in DOMAIN active
           THEN /\ ckPc' = [ckPc EXCEPT ![p] = "del"]
                /\ ckIdx' = ckIdx
           ELSE /\ ckIdx' = [ckIdx EXCEPT ![p] = @ + 1]
                /\ ckPc' = ckPc
    /\ UNCHANGED <<alertVars, ckValue, ckTriggered, ckAlerts, ckRaised,
                   ckCalls, notCheck>>

\* The body of the if: the alert is built, _cooldowns and _active are
\* written and the alert is appended to triggered.
CkSet(p) ==
    /\ ckPc[p] = "set"
    /\ LET rule == Rules[ckIdx[p]]
           alert == MakeAlert(rule, SharedField, ckValue[p], alClock)
       IN  /\ cooldowns' = DictSet(cooldowns, rule.id, alClock)
           /\ active' = DictSet(active, rule.id, alert)
           /\ ckTriggered' = [ckTriggered EXCEPT ![p] = Append(@, alert)]
           /\ ckAlerts' = Append(ckAlerts, alert)
    /\ ckPc' = [ckPc EXCEPT ![p] = "rule"]
    /\ ckIdx' = [ckIdx EXCEPT ![p] = @ + 1]
    /\ UNCHANGED <<alClock, lastCheck, triggered, prevTrigger, loadVars,
                   ckValue, ckRaised, ckCalls, notCheck>>

\* The body of the elif: del self._active[id], which raises KeyError when
\* the key is no longer there; check() has no handler and the call ends.
CkDel(p) ==
    /\ ckPc[p] = "del"
    /\ LET rule == Rules[ckIdx[p]]
       IN  IF rule.id \in DOMAIN active
           THEN /\ active' = DictDel(active, rule.id)
                /\ ckPc' = [ckPc EXCEPT ![p] = "rule"]
                /\ ckIdx' = [ckIdx EXCEPT ![p] = @ + 1]
                /\ ckRaised' = ckRaised
           ELSE /\ active' = active
                /\ ckPc' = [ckPc EXCEPT ![p] = "idle"]
                /\ ckIdx' = ckIdx
                /\ ckRaised' = ckRaised \cup {p}
    /\ UNCHANGED <<alClock, cooldowns, lastCheck, triggered, prevTrigger,
                   loadVars, ckValue, ckTriggered, ckAlerts, ckCalls,
                   notCheck>>

\* The loop is over: return triggered.
CkReturn(p) ==
    /\ ckPc[p] = "rule"
    /\ ckIdx[p] > Len(Rules)
    /\ ckPc' = [ckPc EXCEPT ![p] = "idle"]
    /\ UNCHANGED <<alertVars, ckValue, ckIdx, ckTriggered, ckAlerts, ckRaised,
                   ckCalls, notCheck>>

CheckNext ==
    \/ \E p \in Producers : \E value \in CheckValues(SharedField) :
           CkCall(p, value)
    \/ \E p \in Producers : CkRule(p)
    \/ \E p \in Producers : CkSet(p)
    \/ \E p \in Producers : CkDel(p)
    \/ \E p \in Producers : CkReturn(p)
    \/ AlertTick

\* C35: of the check() calls that producer threads make concurrently for
\* one field none raises, and two alerts of the same rule are never
\* less than the rule's cooldown apart.
C35_ConcurrentCheckSafe ==
    /\ ckRaised = {}
    /\ \A i \in 1..Len(ckAlerts) : \A j \in 1..Len(ckAlerts) :
           (i < j /\ ckAlerts[i].id = ckAlerts[j].id) =>
               ckAlerts[j].timestamp - ckAlerts[i].timestamp
                   >= RuleOf(ckAlerts[i].id).cooldown

Init ==
    /\ hostMode \in {"tk", "web"}
    /\ BusInit
    /\ WebInit
    /\ StoreInit
    /\ CamInit
    /\ CheckInit
    /\ AlertInit
    /\ SrcInit
    /\ WireInitAs({})

AlertSpecInit == Init /\ hostMode = "web"

SpecAlert == AlertSpecInit /\ [][AlertNext]_vars

\* The host with any of the configurations.
LoadSpecInit ==
    /\ hostMode = "web"
    /\ BusInit
    /\ WebInit
    /\ StoreInit
    /\ CamInit
    /\ CheckInit
    /\ SrcInit
    /\ WireInitAs({})
    /\ alClock = 0
    /\ cooldowns = EmptyDict
    /\ active = EmptyDict
    /\ lastCheck = NoCheck
    /\ triggered = <<>>
    /\ prevTrigger = EmptyDict
    /\ alConfig \in LoadConfigs
    /\ alManager = "unwired"
    /\ alRules = <<>>
    /\ alEvaluated = {}

SpecLoad == LoadSpecInit /\ [][LoadNext]_vars

\* The host with or without alert rules, with or without a list of sensor
\* fields.
WireSpecInit ==
    /\ hostMode = "web"
    /\ BusInit
    /\ WebInit
    /\ StoreInit
    /\ CamInit
    /\ CheckInit
    /\ SrcInit
    /\ \E fields \in WireFieldSets : WireInitAs(fields)
    /\ alClock = 0
    /\ cooldowns = EmptyDict
    /\ active = EmptyDict
    /\ lastCheck = NoCheck
    /\ triggered = <<>>
    /\ prevTrigger = EmptyDict
    /\ alConfig \in {<<>>, WireRuleConfig}
    /\ alManager = "unwired"
    /\ alRules = <<>>
    /\ alEvaluated = {}

SpecWire == WireSpecInit /\ [][WireNext]_vars

TickInit == Init /\ hostMode = "tk"

SpecTick == TickInit /\ [][TickNext]_vars

\* Either bus, as the host built it.
BothBusNext == BusNext \/ WebNext

SpecBus == Init /\ [][BothBusNext]_vars

WebSpecInit == Init /\ hostMode = "web"

SpecLatest == WebSpecInit /\ [][LatestNext]_vars

SpecSse == WebSpecInit /\ [][SseNext]_vars

SpecRace == WebSpecInit /\ [][RaceNext]_vars

\* A source of either kind, with a short or a long interval.
SourceSpecInit ==
    /\ hostMode = "web"
    /\ BusInit
    /\ WebInit
    /\ StoreInit
    /\ CamInit
    /\ CheckInit
    /\ AlertInit
    /\ WireInitAs({})
    /\ \E kind \in {"base", "camera"} : \E interval \in SrcIntervals :
           SrcInitAs(kind, interval)

SpecSource == SourceSpecInit /\ [][SourceNext]_vars

\* The threads of the workers are scheduled, and every fetch() returns.
SpecSourceFair ==
    SourceSpecInit /\ [][SourceNext]_vars /\ WF_vars(SrcWorkerNext)

StoreSpecInit == Init /\ hostMode = "web"

SpecStore == StoreSpecInit /\ [][StoreNext]_vars

SpecQuery == StoreSpecInit /\ [][QueryNext]_vars

SpecLock == StoreSpecInit /\ [][LockNext]_vars

BacklogSpecInit ==
    /\ hostMode = "web"
    /\ BusInit
    /\ WebInit
    /\ AlertInit
    /\ SrcInit
    /\ WireInitAs({})
    /\ CamInit
    /\ CheckInit
    /\ BacklogStore

\* The steps of the flush thread up to the write of the Buckets.
BacklogCycle ==
    \/ StoreStart
    \/ FlushLoopTest
    \/ FlushWake
    \/ FlushSwap("flush")
    \/ FlushAcquire("flush")
    \/ FlushInsert("flush")
    \/ DsSelect
    \/ DsAcquire

\* The state predicate that DsWrite is enabled in.
DsWriteEnabled == stPc["flush"] = "dsWrite" /\ ~LockedOut("flush")

\* The flush thread, once started, keeps running: weak fairness of its
\* steps. DsWrite is the only step that ends a state DsWrite is enabled in,
\* so its weak fairness is that it is disabled again and again.
SpecBacklog ==
    /\ BacklogSpecInit
    /\ [][BacklogNext]_vars
    /\ WF_vars(BacklogCycle)
    /\ []<>~DsWriteEnabled

SpecStop == StoreSpecInit /\ [][StopNext]_vars

SpecCamera == StoreSpecInit /\ [][CameraNext]_vars

SpecCheck == AlertSpecInit /\ [][CheckNext]_vars

SpecRetention == StoreSpecInit /\ [][RetentionNext]_vars

\* The flush thread, once started, keeps running, and time passes.
SpecRunning ==
    /\ StoreSpecInit
    /\ [][RunningNext]_vars
    /\ WF_vars(FlushThreadNext)
    /\ WF_vars(StoreDayTick)

====
